---------------------------- MODULE Spec2Model ----------------------------
(*************************************************************************)
(* Verification model of the virtual try-on backend (fitting-room).      *)
(*                                                                       *)
(* Seven specifications share the variables of this module:              *)
(*   Spec      concurrent pipeline invocations (TryOnPipeline.run) over  *)
(*             the one shared PretrainedLibrary cache;                   *)
(*   SpecMesh  Mesh.merge, combine_meshes, create_box, create_body_mesh; *)
(*   SpecSim   ClothSimulator.simulate, one loop phase per step;         *)
(*   SpecSynth PretrainedGarmentModel.from_json and synthesize on the    *)
(*             content of a model definition file;                       *)
(*   SpecRender export_gltf and render_preview;                          *)
(*   SpecLibrary PretrainedLibrary.generate, call after call;            *)
(*   SpecTasks the task registry, the background worker of a request and *)
(*             get_result (SpecTasksLive: with a fair worker).           *)
(* Each specification leaves the variables of the others at their idle   *)
(* values.                                                               *)
(*************************************************************************)
EXTENDS Integers, Sequences, FiniteSets, TLC

VARIABLES
    \* ---- Spec: pipeline invocations and the pretrained-model cache ----
    pc,          \* per invocation: the statement of run / _load_model it is at
    garment,     \* per invocation: the garment_id argument of run
    stages,      \* per invocation: the pipeline stages that have finished
    files,       \* per invocation: what exists under its output_root
    simPath,     \* per invocation: local simulation_path is not None
    simMeta,     \* per invocation: local simulation_metadata is not None
    simOutcome,  \* per invocation: how the try block of run ended
    anim,        \* per invocation: the simulation, its exported document and
                 \* the simulation_metadata dict
    error,       \* per invocation: the exception that escaped run
    result,      \* per invocation: the TryOnArtifacts returned
    model,       \* invocation -> the model object _load_model returned to it
    cache,       \* PretrainedLibrary._cache: garment id -> model object
    heap,        \* PretrainedGarmentModel objects: the attributes set so far
    loadCount,   \* per garment id: how often from_json constructed a model
    \* ---- SpecMesh ----
    mesh,        \* the Mesh being merged into (self)
    preMesh,     \* self as it was before the last merge
    lastOther,   \* the argument of the last merge
    meshOp,      \* which function is building mesh
    todo,        \* the meshes still to be merged by that function
    \* ---- SpecSim ----
    sim,         \* the locals of one ClothSimulator.simulate call
    \* ---- SpecSynth ----
    synth,       \* a model definition file, the model loaded from it and the
                 \* synthesize calls made on it
    \* ---- SpecRender ----
    render,      \* one export_gltf or render_preview call and what it wrote
    \* ---- SpecLibrary ----
    library,     \* PretrainedLibrary._cache on its own and the generate calls
                 \* made so far
    \* ---- SpecTasks ----
    tasks,       \* TaskManager._tasks: task id -> TaskRecord
    lock,        \* TaskManager._lock: who holds it
    worker,      \* per task id: where create_tryon / _process_tryon_task is
    reader,      \* the thread serving get_result requests
    history      \* per task id: the statuses assigned and the calls of run

pipeVars == <<pc, garment, stages, files, simPath, simMeta, simOutcome, anim,
              error, result, model, cache, heap, loadCount>>
meshVars == <<mesh, preMesh, lastOther, meshOp, todo>>
simVars  == <<sim>>
synthVars == <<synth>>
renderVars == <<render>>
libVars  == <<library>>
taskVars == <<tasks, lock, worker, reader, history>>
vars     == <<pipeVars, meshVars, simVars, synthVars, renderVars, libVars, taskVars>>

-----------------------------------------------------------------------------
(* Bounds *)

\* Number of pipeline invocations that may be in flight together.
NumInvocations == 2

Invocations == 1..NumInvocations

-----------------------------------------------------------------------------
(* Garment catalog and model files: the inputs of the pipeline *)

None == "None"

\* Keys of GarmentManager._garments (the manifest garments.json).
Catalog == {"tshirt_basic", "no_faces", "bad_model", "box_skirt"}

\* Garment ids a request may carry; "unknown" is not in the catalog.
GarmentIds == Catalog \cup {"unknown"}

\* Ids for which models/<id>.json exists (PretrainedLibrary.has_model).
ModelFiles == {"tshirt_basic", "no_faces", "bad_model"}

\* Files that from_json rejects (stride, length mismatch): it raises ValueError.
MalformedFiles == {"bad_model"}

\* Model files whose "indices" list is empty: the generated mesh has no faces.
EmptyIndexFiles == {"no_faces"}

\* The attributes PretrainedGarmentModel.__init__ assigns, in order.
InitOrder ==
    <<"id", "base_vertices", "indices", "components", "pinned_vertices",
      "base_centroid", "base_extents">>

ModelFields == {InitOrder[i] : i \in 1..Len(InitOrder)}

\* The attributes synthesize reads.
SynthesizeReads == ModelFields \ {"id"}

IdleInvocation == [i \in Invocations |-> "idle"]

\* An empty dict, and a dict after d[key] = value.
NoEntries == [k \in {} |-> None]

Store(d, key, value) ==
    [k \in DOMAIN d \cup {key} |-> IF k = key THEN value ELSE d[k]]

\* ClothSimulator() as TryOnPipeline.__init__ builds it: the default steps
\* and the default time_step 1.0 / 30.0, as <<numerator, denominator>>.
DefaultSteps == 28
DefaultTimeStep == <<1, 30>>

\* The animation values of an invocation that has not simulated: no
\* ClothSimulation, no exported document, no simulation_metadata.
NoAnimation ==
    [simulation |-> [frame_count |-> 0, frame_rate |-> <<0, 1>>],
     document |-> [frame_count |-> 0, frame_rate |-> <<0, 1>>],
     metadata |-> [frame_count |-> 0, frame_rate |-> <<0, 1>>, file |-> None]]

\* State of the pipeline part before any request has arrived.
PipeInit ==
    /\ pc = IdleInvocation
    /\ garment = [i \in Invocations |-> None]
    /\ stages = [i \in Invocations |-> {}]
    /\ files = [i \in Invocations |-> {}]
    /\ simPath = [i \in Invocations |-> FALSE]
    /\ simMeta = [i \in Invocations |-> FALSE]
    /\ simOutcome = [i \in Invocations |-> "none"]
    /\ anim = [i \in Invocations |-> NoAnimation]
    /\ error = [i \in Invocations |-> None]
    /\ result = [i \in Invocations |-> None]
    /\ model = NoEntries
    /\ cache = NoEntries
    /\ heap = [o \in Invocations |-> {}]
    /\ loadCount = [g \in GarmentIds |-> 0]

\* The jump of invocation i to a statement of run.
Goto(i, label) ==
    /\ pc' = [pc EXCEPT ![i] = label]
    /\ UNCHANGED <<meshVars, simVars, synthVars, renderVars, libVars, taskVars>>

\* An exception leaves run.
Raise(i, exc) ==
    /\ pc' = [pc EXCEPT ![i] = "raised"]
    /\ error' = [error EXCEPT ![i] = exc]
    /\ UNCHANGED <<meshVars, simVars, synthVars, renderVars, libVars, taskVars>>

-----------------------------------------------------------------------------
(* TryOnPipeline.run, statement by statement *)

\* _process_tryon_task calls pipeline.run(..., garment_id = g).
Start(i, g) ==
    /\ pc[i] = "idle"
    /\ garment' = [garment EXCEPT ![i] = g]
    /\ Goto(i, "estimate")
    /\ UNCHANGED <<anim, stages, files, simPath, simMeta, simOutcome, error, result,
                   model, cache, heap, loadCount>>

\* pose_estimator.estimate and create_body_mesh.
Estimate(i) ==
    /\ pc[i] = "estimate"
    /\ stages' = [stages EXCEPT ![i] = @ \cup {"pose"}]
    /\ Goto(i, "build")
    /\ UNCHANGED <<anim, garment, files, simPath, simMeta, simOutcome, error, result,
                   model, cache, heap, loadCount>>

\* build_garment_mesh with the catalog read by .get and a default definition:
\* an unknown id does not raise.
BuildLookupLenient(i) ==
    /\ pc[i] = "build"
    /\ stages' = [stages EXCEPT ![i] = @ \cup {"features"}]
    /\ Goto(i, "has_model")
    /\ UNCHANGED <<anim, garment, files, simPath, simMeta, simOutcome, error, result,
                   model, cache, heap, loadCount>>

\* build_garment_mesh up to the has_model test: the catalog lookup
\* self._garments[garment_id] raises KeyError for an unknown id; otherwise the
\* colorway, the target box and compute_pose_features follow.
BuildLookup(i) ==
    /\ pc[i] = "build"
    /\ IF garment[i] \notin Catalog
         THEN /\ Raise(i, "KeyError")
              /\ UNCHANGED stages
         ELSE /\ stages' = [stages EXCEPT ![i] = @ \cup {"features"}]
              /\ Goto(i, "has_model")
              /\ UNCHANGED error
    /\ UNCHANGED <<anim, garment, files, simPath, simMeta, simOutcome, result,
                   model, cache, heap, loadCount>>

\* build_garment_mesh, no model file: the analytic box (create_box).
BuildAnalytic(i) ==
    /\ pc[i] = "has_model"
    /\ garment[i] \notin ModelFiles
    /\ stages' = [stages EXCEPT ![i] = @ \cup {"synthesis"}]
    /\ Goto(i, "combine")
    /\ UNCHANGED <<anim, garment, files, simPath, simMeta, simOutcome, error, result,
                   model, cache, heap, loadCount>>

\* build_garment_mesh, model file present: generate -> _load_model, whose
\* first statement tests `garment_id not in self._cache`.
LoadCheck(i) ==
    /\ pc[i] = "has_model"
    /\ garment[i] \in ModelFiles
    /\ IF garment[i] \notin DOMAIN cache
         THEN Goto(i, "from_json")
         ELSE Goto(i, "load_return")
    /\ UNCHANGED <<anim, garment, stages, files, simPath, simMeta, simOutcome, error,
                   result, model, cache, heap, loadCount>>

\* _load_model that puts the new object into the cache before __init__ has
\* run on it.
FromJsonPublishFirst(i) ==
    /\ pc[i] = "from_json"
    /\ garment[i] \in ModelFiles
    /\ IF garment[i] \in MalformedFiles
         THEN /\ Raise(i, "ValueError")
              /\ UNCHANGED <<heap, loadCount, cache>>
         ELSE /\ heap' = [heap EXCEPT ![i] = {}]
              /\ cache' = Store(cache, garment[i], i)
              /\ loadCount' = [loadCount EXCEPT ![garment[i]] = @ + 1]
              /\ Goto(i, "init")
              /\ UNCHANGED error
    /\ UNCHANGED <<anim, garment, stages, files, simPath, simMeta, simOutcome, result,
                   model>>

\* _load_model after a miss: path.exists() holds (has_model saw the file),
\* from_json reads and validates the file and calls cls(...), which allocates
\* a new object with no attribute set yet. The object is local to the caller.
FromJson(i) ==
    /\ pc[i] = "from_json"
    /\ garment[i] \in ModelFiles
    /\ IF garment[i] \in MalformedFiles
         THEN /\ Raise(i, "ValueError")
              /\ UNCHANGED <<heap, loadCount>>
         ELSE /\ heap' = [heap EXCEPT ![i] = {}]
              /\ loadCount' = [loadCount EXCEPT ![garment[i]] = @ + 1]
              /\ Goto(i, "init")
              /\ UNCHANGED error
    /\ UNCHANGED <<anim, garment, stages, files, simPath, simMeta, simOutcome, result,
                   model, cache>>

\* PretrainedGarmentModel.__init__: the next attribute assignment.
InitAssign(i) ==
    /\ pc[i] = "init"
    /\ LET k == Cardinality(heap[i]) + 1
       IN  /\ heap' = [heap EXCEPT ![i] = @ \cup {InitOrder[k]}]
           /\ IF k = Len(InitOrder)
                THEN Goto(i, "cache_store")
                ELSE UNCHANGED <<pc, meshVars, simVars, synthVars, renderVars, libVars, taskVars>>
    /\ UNCHANGED <<anim, garment, stages, files, simPath, simMeta, simOutcome, error,
                   result, model, cache, loadCount>>

\* self._cache[garment_id] = <the object from_json returned>.
CacheStore(i) ==
    /\ pc[i] = "cache_store"
    /\ cache' = Store(cache, garment[i], i)
    /\ Goto(i, "load_return")
    /\ UNCHANGED <<anim, garment, stages, files, simPath, simMeta, simOutcome, error,
                   result, model, heap, loadCount>>

\* return self._cache[garment_id]: the entry is read again.
LoadReturn(i) ==
    /\ pc[i] = "load_return"
    /\ model' = Store(model, i, cache[garment[i]])
    /\ Goto(i, "synthesize")
    /\ UNCHANGED <<anim, garment, stages, files, simPath, simMeta, simOutcome, error,
                   result, cache, heap, loadCount>>

\* model.synthesize: reads the model's attributes; an attribute that is not
\* set yet is an AttributeError.
Synthesize(i) ==
    /\ pc[i] = "synthesize"
    /\ IF SynthesizeReads \subseteq heap[model[i]]
         THEN /\ stages' = [stages EXCEPT ![i] = @ \cup {"synthesis"}]
              /\ Goto(i, "combine")
              /\ UNCHANGED error
         ELSE /\ Raise(i, "AttributeError")
              /\ UNCHANGED stages
    /\ UNCHANGED <<anim, garment, files, simPath, simMeta, simOutcome, result,
                   model, cache, heap, loadCount>>

\* run with the simulation block placed before the export calls.
CombineThenSimulate(i) ==
    /\ pc[i] = "combine"
    /\ Goto(i, "simulate")
    /\ UNCHANGED <<anim, garment, stages, files, simPath, simMeta, simOutcome, error,
                   result, model, cache, heap, loadCount>>

\* combine_meshes([body_mesh, garment_mesh]).
Combine(i) ==
    /\ pc[i] = "combine"
    /\ Goto(i, "mkdir")
    /\ UNCHANGED <<anim, garment, stages, files, simPath, simMeta, simOutcome, error,
                   result, model, cache, heap, loadCount>>

\* ensure_directory(output_root).
EnsureDirectory(i) ==
    /\ pc[i] = "mkdir"
    /\ files' = [files EXCEPT ![i] = @ \cup {"dir"}]
    /\ Goto(i, "export_gltf")
    /\ UNCHANGED <<anim, garment, stages, simPath, simMeta, simOutcome, error, result,
                   model, cache, heap, loadCount>>

\* export_gltf(combined_mesh, model_path): the combined mesh holds the body
\* mesh, so it is never empty here.
ExportGltf(i) ==
    /\ pc[i] = "export_gltf"
    /\ files' = [files EXCEPT ![i] = @ \cup {"scene.gltf"}]
    /\ Goto(i, "render_preview")
    /\ UNCHANGED <<anim, garment, stages, simPath, simMeta, simOutcome, error, result,
                   model, cache, heap, loadCount>>

\* render_preview(pose, colorway.color, preview_path).
RenderPreview(i) ==
    /\ pc[i] = "render_preview"
    /\ files' = [files EXCEPT ![i] = @ \cup {"preview.svg"}]
    /\ Goto(i, "simulate")
    /\ UNCHANGED <<anim, garment, stages, simPath, simMeta, simOutcome, error, result,
                   model, cache, heap, loadCount>>

\* `if garment_mesh.indices:` is false: the try block is skipped.
SkipSimulation(i) ==
    /\ pc[i] = "simulate"
    /\ garment[i] \in EmptyIndexFiles
    /\ Goto(i, "metadata")
    /\ UNCHANGED <<anim, garment, stages, files, simPath, simMeta, simOutcome, error,
                   result, model, cache, heap, loadCount>>

\* The ClothSimulation of a simulator with the given steps and time_step for
\* a mesh with vertices and indices: one frame per pass of
\* `for step in range(self.steps)`, frame_rate 1.0 / time_step.
Simulation(steps, time_step) ==
    [frame_count |-> IF steps > 0 THEN steps ELSE 0,
     frame_rate |-> IF time_step[1] # 0 THEN <<time_step[2], time_step[1]>>
                                        ELSE <<0, 1>>]

\* cloth_simulator.simulate of a simulator configured with no step.
SimulateReturnsNoFrames(i) ==
    /\ pc[i] = "simulate"
    /\ garment[i] \notin EmptyIndexFiles
    /\ stages' = [stages EXCEPT ![i] = @ \cup {"simulation"}]
    /\ simPath' = [simPath EXCEPT ![i] = TRUE]
    /\ anim' = [anim EXCEPT ![i].simulation = Simulation(0, DefaultTimeStep)]
    /\ Goto(i, "export_simulation")
    /\ UNCHANGED <<garment, files, simMeta, simOutcome, error, result,
                   model, cache, heap, loadCount>>

\* cloth_simulator.simulate returns (the garment mesh has indices, and
\* vertices since synthesis succeeded); simulation_path is then assigned.
SimulateReturns(i) ==
    /\ pc[i] = "simulate"
    /\ garment[i] \notin EmptyIndexFiles
    /\ stages' = [stages EXCEPT ![i] = @ \cup {"simulation"}]
    /\ simPath' = [simPath EXCEPT ![i] = TRUE]
    /\ anim' = [anim EXCEPT ![i].simulation = Simulation(DefaultSteps, DefaultTimeStep)]
    /\ Goto(i, "export_simulation")
    /\ UNCHANGED <<garment, files, simMeta, simOutcome, error, result,
                   model, cache, heap, loadCount>>

\* cloth_simulator.simulate raises and no handler catches it.
SimulateRaisesUncaught(i) ==
    /\ pc[i] = "simulate"
    /\ garment[i] \notin EmptyIndexFiles
    /\ simOutcome' = [simOutcome EXCEPT ![i] = "simulate_raised"]
    /\ Raise(i, "Exception")
    /\ UNCHANGED <<anim, garment, stages, files, simPath, simMeta, result,
                   model, cache, heap, loadCount>>

\* cloth_simulator.simulate raises: `except Exception` logs a warning.
SimulateRaises(i) ==
    /\ pc[i] = "simulate"
    /\ garment[i] \notin EmptyIndexFiles
    /\ simOutcome' = [simOutcome EXCEPT ![i] = "simulate_raised"]
    /\ Goto(i, "metadata")
    /\ UNCHANGED <<anim, garment, stages, files, simPath, simMeta, error, result,
                   model, cache, heap, loadCount>>

\* export_simulation writes the payload (frame_rate, frame_count =
\* len(simulation.frames)) and returns; simulation_metadata is then built from
\* the same simulation and simulation_path.name.
ExportSimulationReturns(i) ==
    /\ pc[i] = "export_simulation"
    /\ files' = [files EXCEPT ![i] = @ \cup {"cloth_simulation.json"}]
    /\ simMeta' = [simMeta EXCEPT ![i] = TRUE]
    /\ simOutcome' = [simOutcome EXCEPT ![i] = "ok"]
    /\ anim' = [anim EXCEPT
                  ![i].document = anim[i].simulation,
                  ![i].metadata = [frame_count |-> anim[i].simulation.frame_count,
                                   frame_rate |-> anim[i].simulation.frame_rate,
                                   file |-> "cloth_simulation.json"]]
    /\ Goto(i, "metadata")
    /\ UNCHANGED <<garment, stages, simPath, error, result,
                   model, cache, heap, loadCount>>

\* export_simulation raises (json.dumps, or write_text before or after the
\* file was created): `except Exception` logs a warning. simulation_path was
\* assigned before the call and is not reset.
ExportSimulationRaises(i) ==
    /\ pc[i] = "export_simulation"
    /\ \E created \in BOOLEAN :
         files' = [files EXCEPT ![i] =
                     IF created THEN @ \cup {"cloth_simulation.json"} ELSE @]
    /\ simOutcome' = [simOutcome EXCEPT ![i] = "export_raised"]
    /\ Goto(i, "metadata")
    /\ UNCHANGED <<anim, garment, stages, simPath, simMeta, error, result,
                   model, cache, heap, loadCount>>

\* The metadata dict is built ('simulation' is added when simulation_metadata
\* is truthy) and TryOnArtifacts is returned.
Return(i) ==
    /\ pc[i] = "metadata"
    /\ result' = [result EXCEPT ![i] =
                    [simulation_path |-> simPath[i],
                     simulation_file |->
                         IF simPath[i] THEN "cloth_simulation.json" ELSE None,
                     metadata_simulation |-> simMeta[i],
                     simulation |-> anim[i].metadata]]
    /\ Goto(i, "returned")
    /\ UNCHANGED <<anim, garment, stages, files, simPath, simMeta, simOutcome, error,
                   model, cache, heap, loadCount>>

-----------------------------------------------------------------------------
(* geometry.py: Mesh, create_box, create_body_mesh; render.py: combine_meshes *)

\* Largest vertex count of a mesh handed to combine_meshes.
MaxInputVertices == 2

\* Merging is explored up to this many vertices in the result.
MaxVertices == 4

\* Mesh(): the four lists are empty.
EmptyMesh == [vertices |-> <<>>, normals |-> <<>>, colors |-> <<>>, indices |-> <<>>]

\* Mesh.vertex_count.
VertexCount(m) == Len(m.vertices) \div 3

\* Mesh.merge with no offset added to the appended indices.
MergeNoOffset(self, other) ==
    [vertices |-> self.vertices \o other.vertices,
     normals  |-> self.normals \o other.normals,
     colors   |-> self.colors \o other.colors,
     indices  |-> self.indices \o other.indices]

\* Mesh.merge with the offset taken as the length of the position list.
MergeRawOffset(self, other) ==
    LET offset == Len(self.vertices)
    IN  [vertices |-> self.vertices \o other.vertices,
         normals  |-> self.normals \o other.normals,
         colors   |-> self.colors \o other.colors,
         indices  |-> self.indices \o
                      [k \in 1..Len(other.indices) |-> other.indices[k] + offset]]

\* Mesh.merge: the value of self after self.merge(other).
Merge(self, other) ==
    LET offset == Len(self.vertices) \div 3
    IN  [vertices |-> self.vertices \o other.vertices,
         normals  |-> self.normals \o other.normals,
         colors   |-> self.colors \o other.colors,
         indices  |-> self.indices \o
                      [k \in 1..Len(other.indices) |-> other.indices[k] + offset]]

\* The Mesh invariant of the data model.
MeshInvariant(m) ==
    LET V == Len(m.vertices) \div 3
    IN  /\ Len(m.vertices) = 3 * V
        /\ Len(m.normals) = 3 * V
        /\ Len(m.colors) = 4 * V
        /\ Len(m.indices) % 3 = 0
        /\ \A k \in 1..Len(m.indices) : m.indices[k] >= 0 /\ m.indices[k] < V

\* Fixed point: a real x is the integer x * FP, rounded to the nearest.
FP == 100 * 100

Abs(x) == IF x < 0 THEN -x ELSE x

\* a / b rounded to the nearest integer, halves away from zero.
DivRound(a, b) ==
    LET q == (2 * Abs(a) + Abs(b)) \div (2 * Abs(b))
    IN  IF (a < 0) = (b < 0) THEN q ELSE -q

\* Product and quotient of two fixed-point numbers.
FMul(a, b) == DivRound(a * b, FP)
FDiv(a, b) == DivRound(a * FP, b)

\* create_box: the normal and the four corner signs of each of the six faces.
BoxFaces ==
    << [normal |-> <<0, 0, 1>>,
        corners |-> << <<-1, -1, 1>>, <<1, -1, 1>>, <<1, 1, 1>>, <<-1, 1, 1>> >>],
       [normal |-> <<0, 0, -1>>,
        corners |-> << <<-1, -1, -1>>, <<-1, 1, -1>>, <<1, 1, -1>>, <<1, -1, -1>> >>],
       [normal |-> <<-1, 0, 0>>,
        corners |-> << <<-1, -1, -1>>, <<-1, -1, 1>>, <<-1, 1, 1>>, <<-1, 1, -1>> >>],
       [normal |-> <<1, 0, 0>>,
        corners |-> << <<1, -1, -1>>, <<1, 1, -1>>, <<1, 1, 1>>, <<1, -1, 1>> >>],
       [normal |-> <<0, 1, 0>>,
        corners |-> << <<-1, 1, -1>>, <<-1, 1, 1>>, <<1, 1, 1>>, <<1, 1, -1>> >>],
       [normal |-> <<0, -1, 0>>,
        corners |-> << <<-1, -1, -1>>, <<1, -1, -1>>, <<1, -1, 1>>, <<-1, -1, 1>> >>] >>

\* create_box: the loop over faces; f faces have been appended to the result.
RECURSIVE BoxUpTo(_, _, _, _)
BoxUpTo(f, center, size, color) ==
    IF f = 0 THEN EmptyMesh
    ELSE LET m == BoxUpTo(f - 1, center, size, color)
             face == BoxFaces[f]
             half == [a \in 1..3 |-> DivRound(size[a], 2)]
             start_index == VertexCount(m)
             corner(c) == [a \in 1..3 |-> center[a] + face.corners[c][a] * half[a]]
             normal == [a \in 1..3 |-> face.normal[a] * FP]
         IN  [vertices |-> m.vertices \o corner(1) \o corner(2) \o corner(3) \o corner(4),
              normals  |-> m.normals \o normal \o normal \o normal \o normal,
              colors   |-> m.colors \o color \o color \o color \o color,
              indices  |-> m.indices \o
                           <<start_index, start_index + 1, start_index + 2,
                             start_index, start_index + 2, start_index + 3>>]

\* create_box(center, size, color).
CreateBox(center, size, color) == BoxUpTo(Len(BoxFaces), center, size, color)

\* pose.py CANONICAL_POINTS, in fixed point.
CanonicalPoints ==
    [pelvis     |-> <<0, 0, 0>>,
     spine      |-> <<0, 4500, 0>>,
     neck       |-> <<0, 8000, 0>>,
     head_top   |-> <<0, 11000, 0>>,
     shoulder_l |-> <<-2800, 7800, 500>>,
     shoulder_r |-> <<2800, 7800, 500>>,
     elbow_l    |-> <<-3200, 4500, 200>>,
     elbow_r    |-> <<3200, 4500, 200>>,
     wrist_l    |-> <<-3200, 1000, 200>>,
     wrist_r    |-> <<3200, 1000, 200>>,
     hip_l      |-> <<-2000, -1000, 0>>,
     hip_r      |-> <<2000, -1000, 0>>,
     knee_l     |-> <<-1800, -7000, 300>>,
     knee_r     |-> <<1800, -7000, 300>>,
     ankle_l    |-> <<-1600, -12000, 300>>,
     ankle_r    |-> <<1600, -12000, 300>>]

\* Image heights read_image_size may report (0: a header with height 0).
ImageHeights == {0, 280, 800, 1200}

\* PoseEstimator.estimate: the canonical skeleton scaled by height / 800.
Estimate_pose(height) ==
    LET scale == IF height # 0 THEN DivRound(height * FP, 800) ELSE FP
    IN  [scale |-> scale,
         keypoints |-> [name \in DOMAIN CanonicalPoints |->
                          [a \in 1..3 |-> FMul(CanonicalPoints[name][a], scale)]]]

\* geometry._midpoint.
Midpoint(a, b) == [k \in 1..3 |-> DivRound(a[k] + b[k], 2)]

\* geometry._limb_box.
LimbBox(start, end, thickness, color) ==
    LET center == Midpoint(start, end)
        length == IF Abs(end[2] - start[2]) # 0 THEN Abs(end[2] - start[2]) ELSE 3000
        size == <<FMul(thickness, 6000), length, FMul(thickness, 6000)>>
    IN  CreateBox(center, size, color)

SkinColor == <<8500, 6700, 5500, FP>>
HeadColor == <<8800, 7200, 6000, FP>>
LegColor  == <<3500, 3500, 3800, FP>>

\* create_body_mesh: the four limb boxes of one side, in the order appended.
SideBoxes(kp, side, arm_thickness, leg_thickness) ==
    LET shoulder == IF side = "l" THEN kp.shoulder_l ELSE kp.shoulder_r
        elbow    == IF side = "l" THEN kp.elbow_l ELSE kp.elbow_r
        wrist    == IF side = "l" THEN kp.wrist_l ELSE kp.wrist_r
        hip      == IF side = "l" THEN kp.hip_l ELSE kp.hip_r
        knee     == IF side = "l" THEN kp.knee_l ELSE kp.knee_r
        ankle    == IF side = "l" THEN kp.ankle_l ELSE kp.ankle_r
    IN  << LimbBox(shoulder, elbow, arm_thickness, SkinColor),
           LimbBox(elbow, wrist, FMul(arm_thickness, 9000), SkinColor),
           LimbBox(hip, knee, leg_thickness, LegColor),
           LimbBox(knee, ankle, FMul(leg_thickness, 9000), LegColor) >>

\* create_body_mesh: the list `components` before the merge loop.
BodyComponents(pose) ==
    LET kp == pose.keypoints
        dx == Abs(kp.shoulder_r[1] - kp.shoulder_l[1])
        shoulder_width == IF dx # 0 THEN dx ELSE FMul(6000, pose.scale)
        torso_height == kp.neck[2] - kp.pelvis[2]
        torso_depth == FMul(shoulder_width, 4500)
        torso_center == Midpoint(kp.neck, kp.pelvis)
        arm_thickness == FMul(shoulder_width, 3500)
        leg_thickness == FMul(shoulder_width, 4000)
    IN  << CreateBox(torso_center,
                     <<FMul(shoulder_width, 11000),
                       torso_height + FMul(2000, pose.scale),
                       torso_depth>>,
                     SkinColor),
           CreateBox(Midpoint(kp.head_top, kp.neck),
                     <<FMul(shoulder_width, 4500), FMul(pose.scale, 6000),
                       FMul(shoulder_width, 4500)>>,
                     HeadColor) >>
        \o SideBoxes(kp, "l", arm_thickness, leg_thickness)
        \o SideBoxes(kp, "r", arm_thickness, leg_thickness)

\* A well-formed mesh of V vertices whose list entries are pairwise distinct:
\* tag tells the meshes apart, tri is its index list.
InputMesh(V, tag, tri) ==
    [vertices |-> [k \in 1..3 * V |-> 1000 * tag + k],
     normals  |-> [k \in 1..3 * V |-> 1000 * tag + 100 + k],
     colors   |-> [k \in 1..4 * V |-> 1000 * tag + 200 + k],
     indices  |-> tri]

\* The meshes combine_meshes is called with: up to MaxInputVertices vertices,
\* no triangle or one triangle over its own vertices.
InputMeshes ==
    {InputMesh(0, 0, <<>>)} \cup
    UNION {{InputMesh(V, tag, tri) :
              tri \in {<<>>} \cup {<<a, b, c>> : a \in 0..V - 1, b \in 0..V - 1, c \in 0..V - 1}} :
           V \in 1..MaxInputVertices, tag \in 1..2}

\* Values of the mesh variables outside SpecMesh.
MeshIdle ==
    /\ mesh = EmptyMesh
    /\ preMesh = EmptyMesh
    /\ lastOther = EmptyMesh
    /\ meshOp = "idle"
    /\ todo = <<>>

\* combine_meshes / create_body_mesh start from Mesh().
MeshInit ==
    /\ mesh = EmptyMesh
    /\ preMesh = EmptyMesh
    /\ lastOther = EmptyMesh
    /\ \/ meshOp = "combine_meshes" /\ todo = <<>>
       \/ \E h \in ImageHeights :
            meshOp = "create_body_mesh" /\ todo = BodyComponents(Estimate_pose(h))

\* combine_meshes: one iteration of `for mesh in meshes: combined.merge(mesh)`
\* with the next element of the argument list being other.
CombineMerge(other) ==
    /\ meshOp = "combine_meshes"
    /\ VertexCount(mesh) + VertexCount(other) <= MaxVertices
    /\ mesh' = Merge(mesh, other)
    /\ preMesh' = mesh
    /\ lastOther' = other
    /\ UNCHANGED <<meshOp, todo, pipeVars, simVars, synthVars, renderVars, libVars, taskVars>>

\* create_body_mesh: one iteration of `for component in components`.
BodyMerge ==
    /\ meshOp = "create_body_mesh"
    /\ todo # <<>>
    /\ mesh' = Merge(mesh, Head(todo))
    /\ preMesh' = mesh
    /\ lastOther' = Head(todo)
    /\ todo' = Tail(todo)
    /\ UNCHANGED <<meshOp, pipeVars, simVars, synthVars, renderVars, libVars, taskVars>>

-----------------------------------------------------------------------------
(* physics.py: ClothSimulator.simulate *)

\* Largest configured step count (ClothSimulator.steps) explored.
MaxSteps == 3

\* Lengths, positions, velocities and forces are integers in units of a third
\* of a micro-unit (a real x is x * SimUnit), so that rounding to six decimals
\* never meets a tie. Dimensionless factors use FP.
SimUnit == 3 * 1000 * 1000

\* Unit vectors (spring directions) carry three decimals.
DirScale == 10 * 100

\* ClothSimulator.__init__ defaults: damping 0.92 (in percent), stiffness 14.0.
DampingPercent == 92
Stiffness == 14

\* Configured time_step values, as <<numerator, denominator>>: 0 and 1/30.
TimeSteps == {<<0, 1>>, <<1, 30>>}

\* x * time_step.
TimesDt(x, dt) == DivRound(x * dt[1], dt[2])

\* Largest r with r * r <= n, by bisection of lo..hi.
RECURSIVE SqrtFloor(_, _, _)
SqrtFloor(n, lo, hi) ==
    IF lo >= hi THEN lo
    ELSE LET mid == (lo + hi + 1) \div 2
         IN  IF mid * mid <= n THEN SqrtFloor(n, mid, hi) ELSE SqrtFloor(n, lo, mid - 1)

\* math.sqrt, rounded to the nearest integer.
Sqrt(n) ==
    LET r == SqrtFloor(n, 0, 46340)
    IN  IF n - r * r > r THEN r + 1 ELSE r

\* physics._length and physics._distance.
Length(v) == Sqrt(v[1] * v[1] + v[2] * v[2] + v[3] * v[3])
Distance(a, b) == Length(<<a[1] - b[1], a[2] - b[2], a[3] - b[3]>>)

\* round(x, 6): to the nearest micro-unit.
Round6(x) ==
    LET perMicro == SimUnit \div (1000 * 1000)
        lower == perMicro * (x \div perMicro)
    IN  IF 2 * (x - lower) < perMicro THEN lower ELSE lower + perMicro

\* math.sin(math.pi * t) for a fixed-point t in [0, 2), by Bhaskara's
\* rational approximation 16 u (1 - u) / (5 - 4 u (1 - u)) on [0, 1];
\* exact at the multiples of 1/2.
SinPi(t) ==
    LET u == IF t > FP THEN t - FP ELSE t
        p == FMul(u, FP - u)
        s == FDiv(16 * p, 5 * FP - 4 * p)
    IN  IF t > FP THEN -s ELSE s

\* math.cos(math.pi * t) for t in [0, 1].
CosPi(t) == SinPi(t + FP \div 2)

\* dict.get(name, 0.0) on the pose features.
Feature(features, name) == IF name \in DOMAIN features THEN features[name] ELSE 0

\* physics._chunk_vectors(values, 3) when the length is a multiple of 3.
ChunkVectors(values) ==
    [k \in 1..(Len(values) \div 3) |->
        <<values[3 * k - 2], values[3 * k - 1], values[3 * k]>>]

\* tuple(sorted((a, b))).
SortedPair(a, b) == IF a <= b THEN <<a, b>> ELSE <<b, a>>

\* The set `springs` after _build_springs has looked at the first t triangles;
\* a trailing group of fewer than three indices is skipped.
RECURSIVE SpringSet(_, _)
SpringSet(indices, t) ==
    IF t = 0 THEN {}
    ELSE IF 3 * t > Len(indices) THEN SpringSet(indices, t - 1)
    ELSE LET i0 == indices[3 * t - 2]
             i1 == indices[3 * t - 1]
             i2 == indices[3 * t]
         IN  SpringSet(indices, t - 1)
               \cup {SortedPair(i0, i1), SortedPair(i1, i2), SortedPair(i2, i0)}

PairLess(p, q) == p[1] < q[1] \/ (p[1] = q[1] /\ p[2] < q[2])

\* sorted(S) for a set of pairs.
RECURSIVE SortedPairs(_)
SortedPairs(S) ==
    IF S = {} THEN <<>>
    ELSE LET least == CHOOSE p \in S : \A q \in S \ {p} : PairLess(p, q)
         IN  <<least>> \o SortedPairs(S \ {least})

\* physics._build_springs.
BuildSprings(indices) == SortedPairs(SpringSet(indices, (Len(indices) + 2) \div 3))

\* physics._compute_rest_lengths; vertex i is positions[i + 1].
ComputeRestLengths(springs, positions) ==
    [k \in 1..Len(springs) |->
        Distance(positions[springs[k][1] + 1], positions[springs[k][2] + 1])]

\* Vertex lists simulate is called with (flat, 3 per vertex): none, an edge,
\* two triangles (the second with coordinates off the micro-unit grid), and a
\* list whose length is not a multiple of 3.
SimVertexLists ==
    { <<>>,
      <<0, 0, 0,  3000, 4000, 0>>,
      <<0, 0, 0,  3000, 0, 0,  0, 4000, 0>>,
      <<1, 0, 0,  3001, 0, 7,  0, 4003, 0>>,
      <<0, 0, 0,  3000>> }

\* Index lists: none, every triangle over the first two or three vertices that
\* starts at vertex 0, two triangles sharing an edge, a trailing partial group.
SimIndexLists ==
    {<<>>} \cup {<<0, b, c>> : b \in 0..2, c \in 0..2}
           \cup {<<0, 1, 2, 2, 1, 0>>, <<0, 1, 2, 1>>}

\* pinned_vertices arguments, with indices outside the mesh and repeats.
SimPinnedLists == {<<>>, <<0>>, <<1>>, <<2, 0>>, <<5, 1>>, <<-1, 0, 0>>}

\* pose_features arguments: no feature, and the five features of a pose.
SimFeatureMaps ==
    { [n \in {} |-> 0],
      [torso_length |-> 6667, arm_extension |-> 12176, movement_intensity |-> 5195,
       occlusion_left |-> 5918, occlusion_right |-> 5918] }

\* The locals of simulate before the call.
SimCall(vertices, indices, pinned, features, steps, dt) ==
    [phase |-> "call", vertices |-> vertices, indices |-> indices,
     pinned_vertices |-> pinned, pose_features |-> features,
     steps |-> steps, time_step |-> dt,
     positions |-> <<>>, base_positions |-> <<>>, velocities |-> <<>>,
     springs |-> <<>>, rest_lengths |-> <<>>, pinned_idx |-> <<>>,
     gravity_strength |-> 0, wind_strength |-> 0, sway_bias |-> 0,
     step |-> 0, forces |-> <<>>, frames |-> <<>>,
     result |-> None, error |-> None]

\* Value of the simulator variable outside SpecSim.
SimIdle == sim = SimCall(<<>>, <<>>, <<>>, [n \in {} |-> 0], 0, <<0, 1>>)

SimInit ==
    \E vertices \in SimVertexLists, indices \in SimIndexLists,
       pinned \in SimPinnedLists, features \in SimFeatureMaps,
       steps \in 0..MaxSteps, dt \in TimeSteps :
      sim = SimCall(vertices, indices, pinned, features, steps, dt)

ZeroTime == <<0, 1>>

\* simulate, `if not mesh.vertices or not indices`, with the frame's vertex
\* list passed through round(_, 6).
SimulateDegenerateRounded ==
    /\ UNCHANGED <<pipeVars, meshVars, synthVars, renderVars, libVars, taskVars>>
    /\ sim.phase = "call"
    /\ sim.vertices = <<>> \/ sim.indices = <<>>
    /\ sim' = [sim EXCEPT
                 !.phase = "returned",
                 !.result = [frames |-> << [time |-> ZeroTime,
                                            vertices |-> [k \in 1..Len(sim.vertices) |->
                                                            Round6(sim.vertices[k])]] >>,
                             frame_rate |-> ZeroTime,
                             pinned_vertices |-> sim.pinned_vertices]]

\* simulate, `if not mesh.vertices or not indices`: one frame at time 0.0
\* holding list(mesh.vertices), frame_rate 0.0, list(pinned_vertices).
SimulateDegenerate ==
    /\ UNCHANGED <<pipeVars, meshVars, synthVars, renderVars, libVars, taskVars>>
    /\ sim.phase = "call"
    /\ sim.vertices = <<>> \/ sim.indices = <<>>
    /\ sim' = [sim EXCEPT
                 !.phase = "returned",
                 !.result = [frames |-> << [time |-> ZeroTime,
                                            vertices |-> sim.vertices] >>,
                             frame_rate |-> ZeroTime,
                             pinned_vertices |-> sim.pinned_vertices]]

\* simulate from _chunk_vectors to the assignment of sway_bias.
\* _chunk_vectors raises ValueError on a length that is no multiple of 3;
\* _compute_rest_lengths raises IndexError on an index past the last vertex.
SimulateSetup ==
    /\ UNCHANGED <<pipeVars, meshVars, synthVars, renderVars, libVars, taskVars>>
    /\ sim.phase = "call"
    /\ sim.vertices # <<>> /\ sim.indices # <<>>
    /\ IF Len(sim.vertices) % 3 # 0
         THEN sim' = [sim EXCEPT !.phase = "raised", !.error = "ValueError"]
         ELSE LET positions == ChunkVectors(sim.vertices)
                  springs == BuildSprings(sim.indices)
              IN  IF \E k \in 1..Len(springs) : springs[k][2] >= Len(positions)
                    THEN sim' = [sim EXCEPT !.phase = "raised", !.error = "IndexError"]
                    ELSE sim' = [sim EXCEPT
                           !.phase = "loop",
                           !.positions = positions,
                           !.base_positions = positions,
                           !.velocities = [k \in 1..Len(positions) |-> <<0, 0, 0>>],
                           !.springs = springs,
                           !.rest_lengths = ComputeRestLengths(springs, positions),
                           !.pinned_idx =
                               SelectSeq(sim.pinned_vertices,
                                         LAMBDA idx : 0 <= idx /\ idx < Len(positions)),
                           !.gravity_strength =
                               3800 + FMul(2500, Feature(sim.pose_features, "torso_length")),
                           !.wind_strength =
                               1000 + FMul(2200, Feature(sim.pose_features, "movement_intensity")),
                           !.sway_bias = Feature(sim.pose_features, "arm_extension"),
                           !.step = 0,
                           !.frames = <<>>]

\* A fixed-point number as a force or length of the simulation.
ToSim(x) == x * (SimUnit \div FP)

\* A product of two fixed-point numbers as a force of the simulation.
ProductToSim(xy) == DivRound(xy * (SimUnit \div (1000 * 1000)), (FP * FP) \div (1000 * 1000))

\* 1e-6, the length below which a spring is skipped.
MinSpringLength == SimUnit \div (1000 * 1000)

Max(a, b) == IF a >= b THEN a ELSE b

\* The force every vertex starts a step with: lateral, gravity and gust.
BaseForce(s) ==
    LET phase == DivRound(s.step * FP, Max(s.steps - 1, 1))
        gust == SinPi(FMul(phase, 11500 + FMul(s.sway_bias, 3000)))
        lateral == ProductToSim(FMul(FMul(CosPi(phase), s.wind_strength), 1800) * s.sway_bias)
    IN  <<lateral, -ToSim(s.gravity_strength), ProductToSim(s.wind_strength * gust)>>

\* The loop over springs: forces after the first k springs have been applied.
RECURSIVE SpringForces(_, _)
SpringForces(s, k) ==
    IF k = 0 THEN [v \in 1..Len(s.positions) |-> BaseForce(s)]
    ELSE LET forces == SpringForces(s, k - 1)
             i == s.springs[k][1] + 1
             j == s.springs[k][2] + 1
             delta == [a \in 1..3 |-> s.positions[j][a] - s.positions[i][a]]
             length == Length(delta)
             direction == [a \in 1..3 |-> DivRound(delta[a] * DirScale, length)]
             displacement == length - s.rest_lengths[k]
             force == [a \in 1..3 |->
                         DivRound(Stiffness * displacement * direction[a], DirScale)]
             plus == [forces EXCEPT ![i] = [a \in 1..3 |-> @[a] + force[a]]]
         IN  IF length < MinSpringLength THEN forces
             ELSE [plus EXCEPT ![j] = [a \in 1..3 |-> @[a] - force[a]]]

\* One iteration of `for step in range(self.steps)`: the forces.
ComputeForces ==
    /\ UNCHANGED <<pipeVars, meshVars, synthVars, renderVars, libVars, taskVars>>
    /\ sim.phase = "loop"
    /\ sim.step < sim.steps
    /\ sim' = [sim EXCEPT !.phase = "integrate",
                          !.forces = SpringForces(sim, Len(sim.springs))]

\* velocity *= damping.
Damp(v) == DivRound(v * DampingPercent, 100)

\* The integration loop over the vertices.
Integrate ==
    /\ UNCHANGED <<pipeVars, meshVars, synthVars, renderVars, libVars, taskVars>>
    /\ sim.phase = "integrate"
    /\ LET velocity == [v \in 1..Len(sim.positions) |->
                          [a \in 1..3 |->
                             Damp(sim.velocities[v][a]
                                    + TimesDt(sim.forces[v][a], sim.time_step))]]
       IN  sim' = [sim EXCEPT
                     !.phase = "pins",
                     !.velocities = velocity,
                     !.positions = [v \in 1..Len(sim.positions) |->
                                      [a \in 1..3 |->
                                         sim.positions[v][a]
                                           + TimesDt(velocity[v][a], sim.time_step)]]]

\* The vertices named by a list of indices, as positions of the 1-based lists.
Pinned(indexList) == {indexList[k] + 1 : k \in 1..Len(indexList)}

\* The pin loop with the velocity reset left out.
EnforcePinsKeepVelocity ==
    /\ UNCHANGED <<pipeVars, meshVars, synthVars, renderVars, libVars, taskVars>>
    /\ sim.phase = "pins"
    /\ sim' = [sim EXCEPT
                 !.phase = "frame",
                 !.positions = [v \in 1..Len(sim.positions) |->
                                  IF v \in Pinned(sim.pinned_idx)
                                    THEN sim.base_positions[v]
                                    ELSE sim.positions[v]]]

\* `for idx in pinned_idx`: the position is reset to base_positions[idx] and
\* the velocity to zero.
EnforcePins ==
    /\ UNCHANGED <<pipeVars, meshVars, synthVars, renderVars, libVars, taskVars>>
    /\ sim.phase = "pins"
    /\ sim' = [sim EXCEPT
                 !.phase = "frame",
                 !.positions = [v \in 1..Len(sim.positions) |->
                                  IF v \in Pinned(sim.pinned_idx)
                                    THEN sim.base_positions[v]
                                    ELSE sim.positions[v]],
                 !.velocities = [v \in 1..Len(sim.velocities) |->
                                   IF v \in Pinned(sim.pinned_idx)
                                     THEN <<0, 0, 0>>
                                     ELSE sim.velocities[v]]]

\* [round(component, 6) for vertex in positions for component in vertex].
FrameVertices(positions) ==
    [n \in 1..3 * Len(positions) |->
        Round6(positions[((n - 1) \div 3) + 1][((n - 1) % 3) + 1])]

\* RecordFrame stamping the frame with the time of the following step.
RecordFrameNextTime ==
    /\ UNCHANGED <<pipeVars, meshVars, synthVars, renderVars, libVars, taskVars>>
    /\ sim.phase = "frame"
    /\ sim' = [sim EXCEPT
                 !.phase = "loop",
                 !.frames = Append(@, [time |-> <<(sim.step + 1) * sim.time_step[1],
                                                  sim.time_step[2]>>,
                                       vertices |-> FrameVertices(sim.positions)]),
                 !.step = @ + 1]

\* RecordFrame measuring the rest lengths again on the positions of the step.
RecordFrameRelaxing ==
    /\ UNCHANGED <<pipeVars, meshVars, synthVars, renderVars, libVars, taskVars>>
    /\ sim.phase = "frame"
    /\ sim' = [sim EXCEPT
                 !.phase = "loop",
                 !.rest_lengths = ComputeRestLengths(sim.springs, sim.positions),
                 !.frames = Append(@, [time |-> <<sim.step * sim.time_step[1],
                                                  sim.time_step[2]>>,
                                       vertices |-> FrameVertices(sim.positions)]),
                 !.step = @ + 1]

\* frames.append(ClothSimulationFrame(time = step * time_step, ...)).
RecordFrame ==
    /\ UNCHANGED <<pipeVars, meshVars, synthVars, renderVars, libVars, taskVars>>
    /\ sim.phase = "frame"
    /\ sim' = [sim EXCEPT
                 !.phase = "loop",
                 !.frames = Append(@, [time |-> <<sim.step * sim.time_step[1],
                                                  sim.time_step[2]>>,
                                       vertices |-> FrameVertices(sim.positions)]),
                 !.step = @ + 1]

\* frame_rate taken to be time_step itself.
FrameRateIsTimeStep(dt) == dt

\* 1.0 / time_step if time_step else 0.0, as <<numerator, denominator>>.
FrameRate(dt) == IF dt[1] # 0 THEN <<dt[2], dt[1]>> ELSE ZeroTime

\* The loop is over: frame_rate is computed and ClothSimulation returned.
SimulateReturn ==
    /\ UNCHANGED <<pipeVars, meshVars, synthVars, renderVars, libVars, taskVars>>
    /\ sim.phase = "loop"
    /\ sim.step = sim.steps
    /\ sim' = [sim EXCEPT
                 !.phase = "returned",
                 !.result = [frames |-> sim.frames,
                             frame_rate |-> FrameRate(sim.time_step),
                             pinned_vertices |-> sim.pinned_idx]]

-----------------------------------------------------------------------------
(* pretrained.py: from_json and synthesize on the content of a model file *)

\* Largest number of synthesize calls made on one loaded model.
MaxCalls == 2

\* 1.0 and 1e-6 as lengths.
One == SimUnit
Epsilon == SimUnit \div (1000 * 1000)

\* d.get(key, default) on a JSON object or a dict.
Get(d, key, default) == IF key \in DOMAIN d THEN d[key] ELSE default

\* A mapping with no key.
NoFeatures == [n \in {} |-> 0]

\* The three vertices of the base triangle of the model files below: its
\* extent along z is a third of 1e-6.
TriangleVertices == <<0, 0, 0,  3000, 0, 0,  0, 6000, 1>>

\* A component that moves vertices 1 and 2.
SleeveVector == <<0, 0, 0,  300, 0, 0,  0, -600, 600>>

\* Contents of model definition files (models/<id>.json), by garment id.
\* "vertex_stride", "components" and "pinned_vertices" are optional keys.
ModelDefinitions ==
    { [id |-> "tshirt_basic", vertex_stride |-> 3,
       base_vertices |-> TriangleVertices, indices |-> <<0, 1, 2>>,
       components |-> << [name |-> "sleeve", vector |-> SleeveVector,
                          feature_weights |-> [arm_extension |-> 5000,
                                               torso_length |-> -2000]] >>,
       pinned_vertices |-> <<0>>],
      [id |-> "still", vertex_stride |-> 3,
       base_vertices |-> TriangleVertices, indices |-> <<0, 1, 2>>,
       components |-> << [name |-> "zero", vector |-> SleeveVector,
                          feature_weights |-> [arm_extension |-> 0,
                                               movement_intensity |-> 0]],
                         [name |-> "undeclared", vector |-> SleeveVector,
                          feature_weights |-> [hem_length |-> 10000]],
                         [name |-> "unweighted", vector |-> SleeveVector,
                          feature_weights |-> NoFeatures] >>,
       pinned_vertices |-> <<0, 7>>],
      [id |-> "quad",
       base_vertices |-> <<0, 0, 0,  3000, 0, 0,  3000, 6000, 600,  0, 6000, 600>>,
       indices |-> <<0, 1, 2,  0, 2, 3>>],
      [id |-> "fold", vertex_stride |-> 3,
       base_vertices |-> <<0, 0, 0,  3000, 0, 3000,  0, 6000, 0>>,
       indices |-> <<0, 1, 2>>],
      [id |-> "empty", vertex_stride |-> 3,
       base_vertices |-> <<>>, indices |-> <<>>, components |-> <<>>],
      [id |-> "stride2", vertex_stride |-> 2,
       base_vertices |-> <<0, 0, 3000, 0>>, indices |-> <<0, 1, 0>>],
      [id |-> "ragged", vertex_stride |-> 3,
       base_vertices |-> <<0, 0, 0, 3000>>, indices |-> <<>>],
      [id |-> "short_component", vertex_stride |-> 3,
       base_vertices |-> TriangleVertices, indices |-> <<0, 1, 2>>,
       components |-> << [name |-> "short", vector |-> <<0, 0, 0,  300, 0, 0>>,
                          feature_weights |-> [arm_extension |-> 5000]] >>],
      [id |-> "ragged_component", vertex_stride |-> 3,
       base_vertices |-> TriangleVertices, indices |-> <<0, 1, 2>>,
       components |-> << [name |-> "ragged", vector |-> SleeveVector \o <<1>>,
                          feature_weights |-> [arm_extension |-> 5000]] >>],
      [id |-> "index_past_end", vertex_stride |-> 3,
       base_vertices |-> TriangleVertices, indices |-> <<0, 1, 3>>],
      [id |-> "partial_triangle", vertex_stride |-> 3,
       base_vertices |-> TriangleVertices, indices |-> <<0, 1, 2, 0>>] }

\* pretrained._compute_centroid.
ComputeCentroid(vertices) ==
    IF vertices = <<>> THEN <<0, 0, 0>>
    ELSE LET SumTo[k \in 0..Len(vertices)] ==
                 IF k = 0 THEN <<0, 0, 0>>
                 ELSE <<SumTo[k - 1][1] + vertices[k][1],
                        SumTo[k - 1][2] + vertices[k][2],
                        SumTo[k - 1][3] + vertices[k][3]>>
             sums == SumTo[Len(vertices)]
         IN  [axis \in 1..3 |-> DivRound(sums[axis], Len(vertices))]

\* min(...) and max(...) of a non-empty set of numbers.
MinOf(S) == CHOOSE x \in S : \A y \in S : x <= y
MaxOf(S) == CHOOSE x \in S : \A y \in S : x >= y

\* max - min of the vertices along each axis.
RawExtents(vertices) ==
    [axis \in 1..3 |->
        LET values == {vertices[k][axis] : k \in 1..Len(vertices)}
        IN  MaxOf(values) - MinOf(values)]

\* pretrained._compute_extents: an extent below 1e-6 becomes 1.0.
ComputeExtents(vertices) ==
    IF vertices = <<>> THEN <<One, One, One>>
    ELSE LET extents == RawExtents(vertices)
         IN  [axis \in 1..3 |->
                 IF extents[axis] >= Epsilon THEN extents[axis] ELSE One]

\* PretrainedGarmentModel.__init__.
NewModel(model_id, base_vertices, indices, components, pinned_vertices) ==
    [id |-> model_id,
     base_vertices |-> base_vertices,
     indices |-> indices,
     components |-> components,
     pinned_vertices |-> pinned_vertices,
     base_centroid |-> ComputeCentroid(base_vertices),
     base_extents |-> ComputeExtents(base_vertices)]

\* The attribute values of a model that was not constructed.
NoModel == NewModel(None, <<>>, <<>>, <<>>, <<>>)

\* PretrainedGarmentModel.from_json on the parsed file `data`: the exception
\* it raises (stride, _chunk_vectors, component length) or the model.
FromJsonResult(data) ==
    LET stride == Get(data, "vertex_stride", 3)
        specs == Get(data, "components", <<>>)
        base_vertices == ChunkVectors(data.base_vertices)
        Rejected(spec) ==
            \/ Len(spec.vector) % 3 # 0
            \/ Len(spec.vector) \div 3 # Len(base_vertices)
    IN  IF \/ stride # 3
           \/ Len(data.base_vertices) % stride # 0
           \/ \E k \in 1..Len(specs) : Rejected(specs[k])
          THEN [error |-> "ValueError", model |-> NoModel]
          ELSE [error |-> None,
                model |-> NewModel(data.id, base_vertices, data.indices,
                                   [k \in 1..Len(specs) |->
                                       [name |-> specs[k].name,
                                        vector |-> ChunkVectors(specs[k].vector),
                                        feature_weights |-> specs[k].feature_weights]],
                                   Get(data, "pinned_vertices", <<>>))]

\* _compute_component_weight with features.get(name, 1.0): a feature the
\* pose does not have counts as 1.
ComputeComponentWeightDefaultOne(weights, features) ==
    LET names == DOMAIN weights
        SumOver[S \in SUBSET names] ==
            IF S = {} THEN 0
            ELSE LET n == CHOOSE n \in S : TRUE
                 IN  weights[n] * Get(features, n, FP) + SumOver[S \ {n}]
    IN  SumOver[names]

\* pretrained._compute_component_weight: the sum over the component's
\* features of weight * features.get(name, 0.0), in units of 1 / (FP * FP).
ComputeComponentWeight(weights, features) ==
    LET names == DOMAIN weights
        SumOver[S \in SUBSET names] ==
            IF S = {} THEN 0
            ELSE LET n == CHOOSE n \in S : TRUE
                 IN  weights[n] * Get(features, n, 0) + SumOver[S \ {n}]
    IN  SumOver[names]

\* abs(weight) < 1e-6 for a weight in units of 1 / (FP * FP).
WeightSkipped(weight) == Abs(weight) < (FP * FP) \div (1000 * 1000)

\* delta * weight.
Weighted(delta, weight) == FMul(delta, DivRound(weight, FP))

\* synthesize lines 79-87: the base vertices after the components whose
\* weight is not skipped have been added.
ApplyComponents(self, pose_features) ==
    LET After[k \in 0..Len(self.components)] ==
            IF k = 0 THEN self.base_vertices
            ELSE LET component == self.components[k]
                     weight == ComputeComponentWeight(component.feature_weights,
                                                      pose_features)
                 IN  IF WeightSkipped(weight) THEN After[k - 1]
                     ELSE [idx \in 1..Len(After[k - 1]) |->
                              [axis \in 1..3 |->
                                  After[k - 1][idx][axis]
                                    + Weighted(component.vector[idx][axis], weight)]]
    IN  After[Len(self.components)]

\* _compute_scale_vector dividing by max(base, 1e-6).
ComputeScaleVectorFloor(extents, target_size) ==
    [axis \in 1..3 |-> <<target_size[axis], Max(extents[axis], Epsilon)>>]

\* pretrained._compute_scale_vector: per axis the quotient target / base_value
\* as <<dividend, divisor>>, where base_value is 1.0 for a base below 1e-6.
ComputeScaleVector(extents, target_size) ==
    [axis \in 1..3 |->
        <<target_size[axis],
          IF extents[axis] >= Epsilon THEN extents[axis] ELSE One>>]

\* x * scale for a quotient scale.
Scaled(x, scale) == DivRound(x * scale[1], scale[2])

\* synthesize lines 91-94: (vertex - base_centroid) * scale_vector + center.
Recenter(vertices, centroid, scale_vector, center) ==
    [idx \in 1..Len(vertices) |->
        [axis \in 1..3 |->
            Scaled(vertices[idx][axis] - centroid[axis], scale_vector[axis])
              + center[axis]]]

\* Cross products are carried at 1 / CrossScale of their size; 1e-8 and 1e-5
\* at the scales of a reduced cross product and of a length.
CrossScale == 100 * 100
NormalEpsilon == Epsilon * Epsilon
SpanEpsilon == 10 * Epsilon

\* pretrained._cross.
Cross(a, b) ==
    <<a[2] * b[3] - a[3] * b[2], a[3] * b[1] - a[1] * b[3], a[1] * b[2] - a[2] * b[1]>>

\* sequence[i] for a Python index i, which counts from the end when negative.
At(sequence, i) == sequence[(IF i < 0 THEN i + Len(sequence) ELSE i) + 1]

InRange(i, n) == -n <= i /\ i < n

\* The slice indices[i:i + 3] of the t-th pass of the triangle loop.
Slice3(indices, t) ==
    SubSeq(indices, 3 * t - 2, IF 3 * t <= Len(indices) THEN 3 * t ELSE Len(indices))

NumSlices(indices) == (Len(indices) + 2) \div 3

\* The exception _compute_vertex_normals raises, or None: unpacking a slice
\* of fewer than three values is a ValueError, an index outside the vertex
\* list an IndexError; the first pass that fails decides.
NormalsError(vertices, indices) ==
    LET Unpacks(t) == Len(Slice3(indices, t)) = 3
        Fails(t) ==
            \/ ~Unpacks(t)
            \/ \E k \in 1..3 : ~InRange(Slice3(indices, t)[k], Len(vertices))
        failing == {t \in 1..NumSlices(indices) : Fails(t)}
    IN  IF failing = {} THEN None
        ELSE IF Unpacks(MinOf(failing)) THEN "IndexError" ELSE "ValueError"

\* v / length as a unit vector.
Normalized(v, length) == [axis \in 1..3 |-> DivRound(v[axis] * DirScale, length)]

\* The unit normal of a triangle, or <<0, 0, 0>> where the loop skips it
\* (length < 1e-8).
FaceNormal(v0, v1, v2) ==
    LET edge1 == [j \in 1..3 |-> v1[j] - v0[j]]
        edge2 == [j \in 1..3 |-> v2[j] - v0[j]]
        full == Cross(edge1, edge2)
        normal == [j \in 1..3 |-> DivRound(full[j], CrossScale)]
        length == Length(normal)
    IN  IF length < NormalEpsilon THEN <<0, 0, 0>> ELSE Normalized(normal, length)

\* pretrained._compute_vertex_normals when it raises nothing.
ComputeVertexNormals(vertices, indices) ==
    LET n == Len(vertices)
        Position(i) == (IF i < 0 THEN i + n ELSE i) + 1
        Accumulated[t \in 0..NumSlices(indices)] ==
            IF t = 0 THEN [idx \in 1..n |-> <<0, 0, 0>>]
            ELSE LET tri == Slice3(indices, t)
                     normal == FaceNormal(At(vertices, tri[1]), At(vertices, tri[2]),
                                          At(vertices, tri[3]))
                     Uses(idx) == Cardinality({k \in 1..3 : Position(tri[k]) = idx})
                 IN  [idx \in 1..n |->
                         [axis \in 1..3 |->
                             Accumulated[t - 1][idx][axis] + Uses(idx) * normal[axis]]]
        normals == Accumulated[NumSlices(indices)]
    IN  [idx \in 1..n |->
            LET length == Length(normals[idx])
            IN  IF length < 1 THEN <<0, DirScale, 0>>
                ELSE Normalized(normals[idx], length)]

\* pretrained._clamp.
Clamp(value, minimum, maximum) ==
    IF value < minimum THEN minimum ELSE IF value > maximum THEN maximum ELSE value

\* pretrained._shade_vertices: one [r, g, b, alpha] per vertex.
ShadeVertices(vertices, normals, base_color, pose_features, target_center) ==
    IF vertices = <<>> THEN <<>>
    ELSE
    LET heights == {vertices[k][2] : k \in 1..Len(vertices)}
        min_h == MinOf(heights)
        span == Max(MaxOf(heights) - min_h, SpanEpsilon)
        drape_factor == FMul(Get(pose_features, "torso_length", 0), 2500)
        movement == Get(pose_features, "movement_intensity", 0)
        occlusion_left == Get(pose_features, "occlusion_left", 0)
        occlusion_right == Get(pose_features, "occlusion_right", 0)
        center_x == target_center[1]
        Component(x) == x * (FP \div DirScale)
        Color(vertex, normal) ==
            LET normalized_height == DivRound((vertex[2] - min_h) * FP, span)
                shading == Clamp(7200 + FMul(2500, FP - normalized_height) + drape_factor
                                   + FMul(800, Max(Component(normal[3]), 0)),
                                 4000, 13000)
                wrinkle == FMul(FMul(1200, movement), Abs(Component(normal[1])))
                rgb == [c \in 1..3 |-> Clamp(FMul(base_color[c], shading) + wrinkle, 0, FP)]
                Darkened(occlusion) ==
                    LET factor == Max(0, FP - FMul(1500, occlusion))
                    IN  [c \in 1..3 |-> Clamp(FMul(rgb[c], factor), 0, FP)]
                shaded == IF vertex[1] < center_x /\ occlusion_left # 0
                            THEN Darkened(occlusion_left)
                          ELSE IF vertex[1] >= center_x /\ occlusion_right # 0
                            THEN Darkened(occlusion_right)
                          ELSE rgb
            IN  <<shaded[1], shaded[2], shaded[3], base_color[4]>>
    IN  [k \in 1..Len(vertices) |-> Color(vertices[k], normals[k])]

\* [component for vector in vectors for component in vector].
Flatten(vectors, width) ==
    [k \in 1..(width * Len(vectors)) |->
        vectors[((k - 1) \div width) + 1][((k - 1) % width) + 1]]

\* What a synthesize call that raised returns: nothing.
NoMetadata == [pinned_vertices |-> <<>>, pose_features |-> NoFeatures, vertex_count |-> 0]

\* PretrainedGarmentModel.synthesize: the exception raised or the
\* GeneratedMesh (mesh and metadata).
SynthesizeResult(self, pose_features, target_center, target_size, base_color) ==
    LET scale_vector == ComputeScaleVector(self.base_extents, target_size)
        vertices == Recenter(ApplyComponents(self, pose_features), self.base_centroid,
                             scale_vector, target_center)
        raised == NormalsError(vertices, self.indices)
    IN  IF raised # None
          THEN [error |-> raised, mesh |-> EmptyMesh, metadata |-> NoMetadata]
          ELSE LET normals == ComputeVertexNormals(vertices, self.indices)
                   colors == ShadeVertices(vertices, normals, base_color,
                                           pose_features, target_center)
               IN  [error |-> None,
                    mesh |-> [vertices |-> Flatten(vertices, 3),
                              normals |-> Flatten(normals, 3),
                              colors |-> Flatten(colors, 4),
                              indices |-> self.indices],
                    metadata |-> [pinned_vertices |-> self.pinned_vertices,
                                  pose_features |-> pose_features,
                                  vertex_count |-> Len(vertices)]]

\* Arguments of synthesize: pose features, target centers and sizes (as
\* lengths) and base colors.
SynthFeatureMaps ==
    SimFeatureMaps \cup
    { [torso_length |-> 12000, arm_extension |-> 0, movement_intensity |-> 10000,
       occlusion_left |-> 0, occlusion_right |-> 10000] }

TargetCenters == {<<0, 0, 0>>, <<1500, -900, 60>>}

TargetSizes == {<<3000, 6000, 240>>, <<6000, 3000, 3>>}

BaseColors == {<<8000, 0, 3000, 10000>>, <<10000, 10000, 10000, 5000>>}

SynthArgs ==
    [pose_features : SynthFeatureMaps, target_center : TargetCenters,
     target_size : TargetSizes, base_color : BaseColors]

\* Extents handed to _compute_scale_vector directly: below, at and above
\* 1e-6, and negative.
ExtentInputs == {<<0, 1, 2>>, <<3, 3000, One>>, <<-3, 2, 6000>>}

\* A synthesize call that was not made.
NoCall ==
    [args |-> [pose_features |-> NoFeatures, target_center |-> <<0, 0, 0>>,
               target_size |-> <<0, 0, 0>>, base_color |-> <<0, 0, 0, 0>>],
     returned |-> [error |-> None, mesh |-> EmptyMesh, metadata |-> NoMetadata]]

\* No model definition file.
NoData == [id |-> None, base_vertices |-> <<>>, indices |-> <<>>]

\* The state before `data` is loaded, or before _compute_scale_vector is
\* called with `extents` and `target_size`.
SynthStart(phase, data, extents, target_size) ==
    [phase |-> phase, data |-> data, error |-> None, model |-> NoModel,
     loaded |-> NoModel, calls |-> 0, first |-> NoCall, last |-> NoCall,
     extents |-> extents, target_size |-> target_size,
     scale |-> <<<<0, 1>>, <<0, 1>>, <<0, 1>>>>]

\* Value of the variable outside SpecSynth.
SynthIdle == synth = SynthStart("idle", NoData, <<0, 0, 0>>, <<0, 0, 0>>)

SynthInit ==
    \/ \E data \in ModelDefinitions :
         synth = SynthStart("file", data, <<0, 0, 0>>, <<0, 0, 0>>)
    \/ \E extents \in ExtentInputs, target_size \in TargetSizes :
         synth = SynthStart("scale_call", NoData, extents, target_size)

\* _load_model on a miss: from_json raises, or the model is stored. `loaded`
\* keeps the attribute values the model had when it was stored.
ModelFromJson ==
    /\ UNCHANGED <<pipeVars, meshVars, simVars, renderVars, libVars, taskVars>>
    /\ synth.phase = "file"
    /\ LET outcome == FromJsonResult(synth.data)
       IN  synth' = [synth EXCEPT
                       !.phase = IF outcome.error = None THEN "cached" ELSE "load_raised",
                       !.error = outcome.error,
                       !.model = outcome.model,
                       !.loaded = outcome.model]

\* generate on a hit: model.synthesize(...) on the cached model.
ModelSynthesize(args) ==
    /\ UNCHANGED <<pipeVars, meshVars, simVars, renderVars, libVars, taskVars>>
    /\ synth.phase = "cached"
    /\ synth.calls < MaxCalls
    /\ LET call == [args |-> args,
                    returned |-> SynthesizeResult(synth.model, args.pose_features,
                                                  args.target_center, args.target_size,
                                                  args.base_color)]
       IN  synth' = [synth EXCEPT
                       !.calls = @ + 1,
                       !.first = IF synth.calls = 0 THEN call ELSE @,
                       !.last = call,
                       !.error = call.returned.error]

\* _compute_scale_vector(extents, target_size).
ScaleVectorCall ==
    /\ UNCHANGED <<pipeVars, meshVars, simVars, renderVars, libVars, taskVars>>
    /\ synth.phase = "scale_call"
    /\ synth' = [synth EXCEPT
                   !.phase = "scale_returned",
                   !.scale = ComputeScaleVector(synth.extents, synth.target_size)]


-----------------------------------------------------------------------------
(* render.py: export_gltf and render_preview *)

\* Largest number of indices of a mesh handed to export_gltf.
MaxIndices == 7

\* glTF component types (unsigned short, unsigned int, float) and the vertex
\* count from which indices are packed as unsigned int.
UnsignedShort == 5123
UnsignedInt == 5125
Float == 5126
ShortLimit == 65536

\* bufferView targets: ARRAY_BUFFER and ELEMENT_ARRAY_BUFFER.
ArrayBuffer == 34962
ElementArrayBuffer == 34963

\* A mesh handed to export_gltf, each list given by its length: V whole
\* vertices and `extra` more floats in vertices, and the largest index.
ExportMesh(V, extra, indices, max_index) ==
    [vertices |-> 3 * V + extra, normals |-> 3 * V, colors |-> 4 * V,
     indices |-> indices, max_index |-> max_index]

\* Meshes around the empty mesh and around the 16-bit limit; the last group
\* has an index that is not a vertex of the mesh.
ExportMeshes ==
    {ExportMesh(V, extra, n, IF n = 0 THEN -1 ELSE IF V = 0 THEN 0 ELSE V - 1) :
        V \in {0, 1, 2, 3, ShortLimit - 1, ShortLimit, ShortLimit + 1},
        extra \in {0, 2}, n \in 0..MaxIndices}
    \cup {ExportMesh(V, 0, 3, ShortLimit + 4) : V \in {3, ShortLimit}}

\* Mesh.vertex_count of such a mesh.
ExportVertexCount(m) == m.vertices \div 3

\* A bytes value: its name, its length and the size of the items packed.
Bytes(part, len, item) == [part |-> part, len |-> len, item |-> item]

\* render._pack_floats: struct.pack("<f", ...) of every value.
PackFloats(part, count) == Bytes(part, 4 * count, 4)

\* render._pack_indices: "<H" (2 bytes) or "<I" (4 bytes) per index.
PackIndices(count, use_short) ==
    IF use_short THEN Bytes("indices", 2 * count, 2) ELSE Bytes("indices", 4 * count, 4)

\* struct.pack raises struct.error for an index the format cannot hold.
PackIndicesRaises(m, use_short) ==
    m.indices > 0 /\ (m.max_index < 0 \/ (use_short /\ m.max_index >= ShortLimit))

\* index_component_type with the limit itself still packed as 16 bit.
IndexComponentTypeInclusive(vertex_count) ==
    IF vertex_count <= ShortLimit THEN UnsignedShort ELSE UnsignedInt

\* index_component_type = 5123 if vertex_count < 65536 else 5125.
IndexComponentType(vertex_count) ==
    IF vertex_count < ShortLimit THEN UnsignedShort ELSE UnsignedInt

\* (4 - (offset % 4)) % 4.
Padding(offset) == (4 - (offset % 4)) % 4

\* _align_concat joining the parts with no padding.
AlignConcatUnpadded(parts) == parts

\* render._align_concat: the chunks joined into the buffer, each part
\* followed by its zero padding when it has any.
AlignConcat(parts) ==
    LET Step[k \in 0..Len(parts)] ==
            IF k = 0 THEN [chunks |-> <<>>, offset |-> 0]
            ELSE LET offset == Step[k - 1].offset + parts[k].len
                     padding == Padding(offset)
                 IN  [chunks |-> Step[k - 1].chunks \o <<parts[k]>> \o
                                   (IF padding # 0 THEN <<Bytes("pad", padding, 1)>>
                                                   ELSE <<>>),
                      offset |-> offset + padding]
    IN  Step[Len(parts)].chunks

\* len(b"".join(chunks[1..n])).
JoinedLength(chunks, n) ==
    LET Total[k \in 0..n] == IF k = 0 THEN 0 ELSE Total[k - 1] + chunks[k].len
    IN  Total[n]

\* render._compute_offsets.
ComputeOffsets(parts) ==
    LET Current[k \in 0..Len(parts)] ==
            IF k = 0 THEN 0
            ELSE LET current == Current[k - 1] + parts[k].len
                 IN  current + Padding(current)
    IN  [k \in 1..Len(parts) |-> Current[k - 1]]

\* No document.
NoDocument ==
    [buffer |-> <<>>, byteLength |-> 0, bufferViews |-> <<>>, accessors |-> <<>>]

\* export_gltf lines 28-77: the glTF document (buffer, bufferViews,
\* accessors) built for mesh m.
GltfDocument(m) ==
    LET vertex_count == ExportVertexCount(m)
        positions == PackFloats("positions", m.vertices)
        normals == PackFloats("normals", m.normals)
        colors == PackFloats("colors", m.colors)
        index_component_type == IndexComponentType(vertex_count)
        index_data == PackIndices(m.indices, index_component_type = UnsignedShort)
        parts == <<positions, normals, colors, index_data>>
        buffer == AlignConcat(parts)
        offsets == ComputeOffsets(parts)
        View(k, target) ==
            [byteOffset |-> offsets[k], byteLength |-> parts[k].len, target |-> target]
        Accessor(view, componentType, count, type) ==
            [bufferView |-> view, componentType |-> componentType,
             count |-> count, type |-> type]
    IN  [buffer |-> buffer,
         byteLength |-> JoinedLength(buffer, Len(buffer)),
         bufferViews |-> <<View(1, ArrayBuffer), View(2, ArrayBuffer),
                           View(3, ArrayBuffer), View(4, ElementArrayBuffer)>>,
         accessors |-> <<Accessor(0, Float, vertex_count, "VEC3"),
                         Accessor(1, Float, vertex_count, "VEC3"),
                         Accessor(2, Float, vertex_count, "VEC4"),
                         Accessor(3, index_component_type, m.indices, "SCALAR")>>]

\* What export_gltf does with mesh m: the error raised, whether output_path
\* was written, and the document written. Vertex values are taken to be
\* floats that "<f" can pack.
ExportGltfResult(m) ==
    LET vertex_count == ExportVertexCount(m)
        use_short == IndexComponentType(vertex_count) = UnsignedShort
    IN  IF vertex_count = 0
        THEN [error |-> "ValueError", written |-> FALSE, document |-> NoDocument]
        ELSE IF PackIndicesRaises(m, use_short)
        THEN [error |-> "struct.error", written |-> FALSE, document |-> NoDocument]
        ELSE [error |-> None, written |-> TRUE, document |-> GltfDocument(m)]

\* pose.py POSE_EDGES.
PoseEdges ==
    << <<"head_top", "neck">>, <<"neck", "spine">>, <<"spine", "pelvis">>,
       <<"shoulder_l", "neck">>, <<"shoulder_r", "neck">>,
       <<"shoulder_l", "elbow_l">>, <<"elbow_l", "wrist_l">>,
       <<"shoulder_r", "elbow_r">>, <<"elbow_r", "wrist_r">>,
       <<"pelvis", "hip_l">>, <<"pelvis", "hip_r">>,
       <<"hip_l", "knee_l">>, <<"knee_l", "ankle_l">>,
       <<"hip_r", "knee_r">>, <<"knee_r", "ankle_r">> >>

\* _garment_rectangle: required.
Required == {"shoulder_l", "shoulder_r", "hip_l", "hip_r"}

\* The edges of a skeleton whose two ends are both among `names`.
EdgesWithin(edges, names) ==
    SelectSeq(edges, LAMBDA e : e[1] \in names /\ e[2] \in names)

\* Landmark sets a PoseResult may be built with: all sixteen, or some left
\* out.
LandmarkSets ==
    {DOMAIN CanonicalPoints \ missing :
        missing \in {{}, {"shoulder_l"}, {"shoulder_r"}, {"hip_l"}, {"hip_r"},
                     {"wrist_l"}, {"shoulder_l", "hip_r"}, Required}}

\* PoseResult values handed to render_preview: the estimate for an 800 pixel
\* image with the landmarks of `names`, and as edges POSE_EDGES (what
\* estimate sets), the edges between the landmarks present, or none.
PreviewPoses ==
    LET keypoints == Estimate_pose(800).keypoints
    IN  UNION {{[keypoints |-> [name \in names |-> keypoints[name]], edges |-> edges] :
                   edges \in {PoseEdges, EdgesWithin(PoseEdges, names), <<>>}} :
               names \in LandmarkSets}

\* The ":.1f" format: a fixed-point number as tenths, rounded.
Tenths(v) == DivRound(v, FP \div 10)

\* render._project_to_2d with width 480 and height 720, in fixed point.
ProjectTo2d(point) ==
    LET scale == 168
    IN  <<240 * FP + point[1] * scale, 360 * FP - point[2] * scale>>

\* render._garment_rectangle: <<left, top, width, height>>, or <<>> for None.
GarmentRectangle(points) ==
    IF ~ (Required \subseteq DOMAIN points) THEN <<>>
    ELSE LET left == MinOf({points["shoulder_l"][1], points["hip_l"][1]})
             right == MaxOf({points["shoulder_r"][1], points["hip_r"][1]})
             top == MinOf({points["shoulder_l"][2], points["shoulder_r"][2]}) - 20 * FP
             bottom == MaxOf({points["hip_l"][2], points["hip_r"][2]}) + 20 * FP
         IN  <<left, top, right - left, bottom - top>>

\* No SVG document.
NoSvg == [rect |-> <<>>, lines |-> <<>>]

\* What render_preview does with `pose`: points[a] or points[b] of an edge
\* with an end that is no key raises KeyError while the lines are built,
\* before anything is written; otherwise the SVG with the garment rectangle
\* when there is one, then the lines.
RenderPreviewResult(pose) ==
    LET points == [name \in DOMAIN pose.keypoints |-> ProjectTo2d(pose.keypoints[name])]
        Line(e) == <<Tenths(points[e[1]][1]), Tenths(points[e[1]][2]),
                     Tenths(points[e[2]][1]), Tenths(points[e[2]][2])>>
        garment_box == GarmentRectangle(points)
    IN  IF \E k \in DOMAIN pose.edges :
               pose.edges[k][1] \notin DOMAIN points \/ pose.edges[k][2] \notin DOMAIN points
        THEN [error |-> "KeyError", written |-> FALSE, svg |-> NoSvg]
        ELSE [error |-> None, written |-> TRUE,
              svg |-> [rect |-> [k \in DOMAIN garment_box |-> Tenths(garment_box[k])],
                       lines |-> [k \in DOMAIN pose.edges |-> Line(pose.edges[k])]]]

\* No pose.
NoPose == [keypoints |-> [name \in {} |-> <<>>], edges |-> <<>>]

\* The state before export_gltf(mesh, ...) or render_preview(pose, ...) runs.
RenderStart(phase, m, pose) ==
    [phase |-> phase, mesh |-> m, pose |-> pose, error |-> None,
     written |-> FALSE, document |-> NoDocument, svg |-> NoSvg]

\* Value of the variable outside SpecRender.
RenderIdle == render = RenderStart("idle", ExportMesh(0, 0, 0, -1), NoPose)

RenderInit ==
    \/ \E m \in ExportMeshes : render = RenderStart("export_call", m, NoPose)
    \/ \E pose \in PreviewPoses :
         render = RenderStart("preview_call", ExportMesh(0, 0, 0, -1), pose)

\* export_gltf writing the document before it looks at the vertex count.
ExportGltfWriteThenCheck ==
    /\ UNCHANGED <<pipeVars, meshVars, simVars, synthVars, libVars, taskVars>>
    /\ render.phase = "export_call"
    /\ LET outcome == ExportGltfResult(render.mesh)
       IN  render' = [render EXCEPT
                        !.phase = IF outcome.error = None THEN "export_returned"
                                                          ELSE "export_raised",
                        !.error = outcome.error,
                        !.written = TRUE,
                        !.document = GltfDocument(render.mesh)]

\* export_gltf(mesh, output_path).
ExportGltfCall ==
    /\ UNCHANGED <<pipeVars, meshVars, simVars, synthVars, libVars, taskVars>>
    /\ render.phase = "export_call"
    /\ LET outcome == ExportGltfResult(render.mesh)
       IN  render' = [render EXCEPT
                        !.phase = IF outcome.error = None THEN "export_returned"
                                                          ELSE "export_raised",
                        !.error = outcome.error,
                        !.written = outcome.written,
                        !.document = outcome.document]

\* render_preview(pose, garment_color, output_path).
RenderPreviewCall ==
    /\ UNCHANGED <<pipeVars, meshVars, simVars, synthVars, libVars, taskVars>>
    /\ render.phase = "preview_call"
    /\ LET outcome == RenderPreviewResult(render.pose)
       IN  render' = [render EXCEPT
                        !.phase = IF outcome.error = None THEN "preview_returned"
                                                          ELSE "preview_raised",
                        !.error = outcome.error,
                        !.written = outcome.written,
                        !.svg = outcome.svg]


-----------------------------------------------------------------------------
(* pretrained.py: PretrainedLibrary.generate, one call after another *)

\* Largest number of generate calls on the library.
MaxGenerateCalls == 3

\* The files models/<id>.json of the library root, by id.
LibraryFiles == [g \in {data.id : data \in ModelDefinitions} |->
                    CHOOSE data \in ModelDefinitions : data.id = g]

\* Garment ids generate is called with: those with a file and one without.
LibraryIds == DOMAIN LibraryFiles \cup {"no_file"}

\* Arguments of the synthesize call generate ends with.
GenerateArgs ==
    {args \in SynthArgs : /\ args.target_center = <<0, 0, 0>>
                          /\ args.target_size = <<3000, 6000, 240>>
                          /\ args.base_color = <<8000, 0, 3000, 10000>>}

\* _load_model keeping an entry for a file that from_json rejected.
LoadModelCachesFailure(entries, garment_id) ==
    IF garment_id \in DOMAIN entries
      THEN [error |-> None, cache |-> entries, loaded |-> FALSE]
    ELSE IF garment_id \notin DOMAIN LibraryFiles
      THEN [error |-> "FileNotFoundError", cache |-> entries, loaded |-> FALSE]
    ELSE LET outcome == FromJsonResult(LibraryFiles[garment_id])
         IN  [error |-> outcome.error,
              cache |-> Store(entries, garment_id, outcome.model),
              loaded |-> TRUE]

\* PretrainedLibrary._load_model on the cache `entries`: the exception raised,
\* the cache afterwards and whether from_json was called.
LoadModel(entries, garment_id) ==
    IF garment_id \in DOMAIN entries
      THEN [error |-> None, cache |-> entries, loaded |-> FALSE]
    ELSE IF garment_id \notin DOMAIN LibraryFiles
      THEN [error |-> "FileNotFoundError", cache |-> entries, loaded |-> FALSE]
    ELSE LET outcome == FromJsonResult(LibraryFiles[garment_id])
         IN  [error |-> outcome.error,
              cache |-> IF outcome.error = None
                          THEN Store(entries, garment_id, outcome.model)
                          ELSE entries,
              loaded |-> TRUE]

\* No cache entry.
NoModels == [g \in {} |-> NoModel]

\* The library after __init__ (an empty cache), with no call made.
NewLibrary ==
    [cache |-> NoModels,
     before |-> NoModels,
     calls |-> 0,
     requests |-> [g \in LibraryIds |-> 0],
     loads |-> [g \in LibraryIds |-> 0],
     last |-> [garment_id |-> None, error |-> None]]

\* Value of the variable outside SpecLibrary.
LibraryIdle == library = NewLibrary

\* PretrainedLibrary.generate(garment_id, ...): _load_model, then synthesize
\* on the model it returned. `before` is the cache the call found.
Generate(garment_id, args) ==
    /\ UNCHANGED <<pipeVars, meshVars, simVars, synthVars, renderVars, taskVars>>
    /\ library.calls < MaxGenerateCalls
    /\ LET load == LoadModel(library.cache, garment_id)
           raised == IF load.error # None THEN load.error
                     ELSE SynthesizeResult(load.cache[garment_id], args.pose_features,
                                           args.target_center, args.target_size,
                                           args.base_color).error
       IN  library' = [cache |-> load.cache,
                       before |-> library.cache,
                       calls |-> library.calls + 1,
                       requests |-> [library.requests EXCEPT ![garment_id] = @ + 1],
                       loads |-> [library.loads EXCEPT
                                    ![garment_id] = @ + (IF load.loaded THEN 1 ELSE 0)],
                       last |-> [garment_id |-> garment_id, error |-> raised]]

-----------------------------------------------------------------------------
(* tasks.py and routes.py: the task registry, the worker and get_result *)

\* Largest number of get_result requests served.
MaxReads == 2

\* The ids generate_task_id gave to the requests of a run.
TaskIds == {"a1", "b2"}

\* Exceptions that leave pipeline.run: an unknown garment id
\* (garment.py, self._garments[garment_id]), an empty mesh (render.py:27),
\* an index past the last vertex (pretrained.py:202).
RunErrors ==
    { [type |-> "KeyError", args |-> <<"unknown">>],
      [type |-> "ValueError", args |-> <<"Mesh is empty">>],
      [type |-> "IndexError", args |-> <<"list index out of range">>] }

\* No exception.
NoError == [type |-> None, args |-> <<>>]

\* repr of the strings used as KeyError keys.
Repr == [unknown |-> "'unknown'"]

\* str(exc): the empty string without arguments, the repr of the key for a
\* KeyError, the message otherwise.
Str(exc) ==
    IF exc.args = <<>> THEN ""
    ELSE IF exc.type = "KeyError" THEN Repr[exc.args[1]]
    ELSE exc.args[1]

\* TaskRecord.result when it is None.
NoneResult == [is_none |-> TRUE, preview_url |-> "", model_url |-> "", metadata |-> ""]

\* f"/results/{task_id}/preview.svg" and f"/results/{task_id}/scene.gltf".
PreviewUrl == [a1 |-> "/results/a1/preview.svg", b2 |-> "/results/b2/preview.svg"]
ModelUrl == [a1 |-> "/results/a1/scene.gltf", b2 |-> "/results/b2/scene.gltf"]

\* result_payload of _process_tryon_task.
ResultPayload(task_id) ==
    [is_none |-> FALSE, preview_url |-> PreviewUrl[task_id],
     model_url |-> ModelUrl[task_id], metadata |-> "artifacts.metadata"]

\* TaskRecord().
TaskRecord == [status |-> "queued", result |-> NoneResult, error |-> None]

\* No response of get_result yet.
NoResponse == [code |-> 0, status |-> None, error |-> None, result |-> NoneResult]

\* State of the registry part before any request has arrived.
TasksInit ==
    /\ tasks = [t \in {} |-> TaskRecord]
    /\ lock = "free"
    /\ worker = [t \in TaskIds |-> [pc |-> "none", exc |-> NoError]]
    /\ reader = [pc |-> "idle", task_id |-> None, reads |-> 0, payload |-> NoResponse,
                 response |-> NoResponse]
    /\ history = [t \in TaskIds |-> [trace |-> <<>>, runs |-> 0]]

\* Value of the variables outside SpecTasks.
TasksIdle == TasksInit

\* The frame of a worker step on task t.
WorkerGoto(t, label) ==
    /\ worker' = [worker EXCEPT ![t].pc = label]
    /\ UNCHANGED <<pipeVars, meshVars, simVars, synthVars, renderVars, libVars, reader>>

\* The status assigned to the record of t, with the history of it.
SetStatus(t, status) ==
    /\ tasks' = [tasks EXCEPT ![t].status = status]
    /\ history' = [history EXCEPT ![t].trace = Append(@, status)]

\* create_tryon: generate_task_id and task_manager.create(task_id), under
\* the lock.
CreateTryon(t) ==
    /\ worker[t].pc = "none"
    /\ lock = "free"
    /\ tasks' = Store(tasks, t, TaskRecord)
    /\ history' = [history EXCEPT ![t].trace = Append(@, "queued")]
    /\ WorkerGoto(t, "upload")
    /\ UNCHANGED lock

\* create_tryon: the upload is written and _process_tryon_task is added to
\* the background tasks, or writing raises and the request ends there.
SaveUpload(t) ==
    /\ worker[t].pc = "upload"
    /\ \/ WorkerGoto(t, "scheduled")
       \/ WorkerGoto(t, "rejected")
    /\ UNCHANGED <<tasks, lock, history>>

\* _process_tryon_task: task_manager.start(task_id), under the lock; KeyError
\* for an id without record is caught by the except clause.
StartTask(t) ==
    /\ worker[t].pc = "scheduled"
    /\ lock = "free"
    /\ IF t \in DOMAIN tasks
         THEN /\ SetStatus(t, "running")
              /\ WorkerGoto(t, "run")
         ELSE /\ worker' = [worker EXCEPT ![t] = [pc |-> "fail",
                                                  exc |-> [type |-> "KeyError",
                                                           args |-> <<t>>]]]
              /\ UNCHANGED <<tasks, history, pipeVars, meshVars, simVars, synthVars,
                             renderVars, libVars, reader>>
    /\ UNCHANGED lock

\* _process_tryon_task without the except clause: the exception of
\* pipeline.run ends the background task.
RunPipelineUncaught(t) ==
    /\ worker[t].pc = "run"
    /\ history' = [history EXCEPT ![t].runs = @ + 1]
    /\ \/ /\ worker' = [worker EXCEPT ![t].pc = "complete"]
       \/ \E exc \in RunErrors :
            worker' = [worker EXCEPT ![t] = [pc |-> "finished", exc |-> exc]]
    /\ UNCHANGED <<tasks, lock, reader, pipeVars, meshVars, simVars, synthVars,
                   renderVars, libVars>>

\* _process_tryon_task: pipeline.run(...) returns the artifacts or raises;
\* `except Exception as exc` takes the exception to task_manager.fail.
RunPipeline(t) ==
    /\ worker[t].pc = "run"
    /\ history' = [history EXCEPT ![t].runs = @ + 1]
    /\ \/ /\ worker' = [worker EXCEPT ![t].pc = "complete"]
       \/ \E exc \in RunErrors :
            worker' = [worker EXCEPT ![t] = [pc |-> "fail", exc |-> exc]]
    /\ UNCHANGED <<tasks, lock, reader, pipeVars, meshVars, simVars, synthVars,
                   renderVars, libVars>>

\* task_manager.complete: `with self._lock` and record.status = DONE.
CompleteStatus(t) ==
    /\ worker[t].pc = "complete"
    /\ lock = "free"
    /\ lock' = t
    /\ SetStatus(t, "done")
    /\ WorkerGoto(t, "complete_result")

\* task_manager.complete: record.result = result.
CompleteResult(t) ==
    /\ worker[t].pc = "complete_result"
    /\ tasks' = [tasks EXCEPT ![t].result = ResultPayload(t)]
    /\ WorkerGoto(t, "complete_error")
    /\ UNCHANGED <<lock, history>>

\* task_manager.complete: record.error = None, and the lock is released.
CompleteError(t) ==
    /\ worker[t].pc = "complete_error"
    /\ tasks' = [tasks EXCEPT ![t].error = None]
    /\ lock' = "free"
    /\ WorkerGoto(t, "finished")
    /\ UNCHANGED history

\* task_manager.fail: `with self._lock` and record.status = FAILED; KeyError
\* for an id without record leaves _process_tryon_task.
FailStatus(t) ==
    /\ worker[t].pc = "fail"
    /\ lock = "free"
    /\ IF t \in DOMAIN tasks
         THEN /\ lock' = t
              /\ SetStatus(t, "failed")
              /\ WorkerGoto(t, "fail_error")
         ELSE /\ WorkerGoto(t, "crashed")
              /\ UNCHANGED <<tasks, lock, history>>

\* task_manager.fail: record.error = str(error), and the lock is released.
FailError(t) ==
    /\ worker[t].pc = "fail_error"
    /\ tasks' = [tasks EXCEPT ![t].error = Str(worker[t].exc)]
    /\ lock' = "free"
    /\ WorkerGoto(t, "finished")
    /\ UNCHANGED history

\* A step of the request and of the background task of t.
WorkerStep(t) ==
    \/ CreateTryon(t)
    \/ SaveUpload(t)
    \/ StartTask(t)
    \/ RunPipeline(t)
    \/ CompleteStatus(t)
    \/ CompleteResult(t)
    \/ CompleteError(t)
    \/ FailStatus(t)
    \/ FailError(t)

\* The frame of a step of get_result.
ReaderFrame ==
    UNCHANGED <<tasks, lock, worker, history, pipeVars, meshVars, simVars, synthVars,
                renderVars, libVars>>

\* get_result: record = task_manager.get(task_id), under the lock; 404 when
\* there is no record.
GetRecord(t) ==
    /\ reader.pc = "idle"
    /\ reader.reads < MaxReads
    /\ lock = "free"
    /\ IF t \in DOMAIN tasks
         THEN reader' = [reader EXCEPT !.pc = "status", !.task_id = t,
                                       !.payload = NoResponse, !.response = NoResponse]
         ELSE reader' = [reader EXCEPT !.task_id = t, !.reads = @ + 1,
                                       !.payload = NoResponse,
                                       !.response = [NoResponse EXCEPT !.code = 404]]
    /\ ReaderFrame

\* get_result: "status": record.status.value.
ReadStatus ==
    /\ reader.pc = "status"
    /\ reader' = [reader EXCEPT !.pc = "error",
                                !.payload.status = tasks[reader.task_id].status]
    /\ ReaderFrame

\* get_result: "error": record.error.
ReadError ==
    /\ reader.pc = "error"
    /\ reader' = [reader EXCEPT !.pc = "result",
                                !.payload.error = tasks[reader.task_id].error]
    /\ ReaderFrame

\* get_result: `if record.result: payload.update(record.result)` and the
\* JSONResponse.
ReadResult ==
    /\ reader.pc = "result"
    /\ LET record == tasks[reader.task_id]
           payload == [reader.payload EXCEPT
                         !.code = 200,
                         !.result = IF ~ record.result.is_none THEN record.result
                                                               ELSE NoneResult]
       IN  reader' = [reader EXCEPT !.pc = "idle", !.reads = @ + 1,
                                    !.payload = payload, !.response = payload]
    /\ ReaderFrame

\* A step of the thread serving get_result.
ReaderStep ==
    \/ \E t \in TaskIds : GetRecord(t)
    \/ ReadStatus
    \/ ReadError
    \/ ReadResult

-----------------------------------------------------------------------------
(* Specifications *)

Init == PipeInit /\ MeshIdle /\ SimIdle /\ SynthIdle /\ RenderIdle
    /\ LibraryIdle /\ TasksIdle

RunStep(i) ==
    \/ \E g \in GarmentIds : Start(i, g)
    \/ Estimate(i)
    \/ BuildLookup(i)
    \/ BuildAnalytic(i)
    \/ LoadCheck(i)
    \/ FromJson(i)
    \/ InitAssign(i)
    \/ CacheStore(i)
    \/ LoadReturn(i)
    \/ Synthesize(i)
    \/ Combine(i)
    \/ EnsureDirectory(i)
    \/ ExportGltf(i)
    \/ RenderPreview(i)
    \/ SkipSimulation(i)
    \/ SimulateReturns(i)
    \/ SimulateRaises(i)
    \/ ExportSimulationReturns(i)
    \/ ExportSimulationRaises(i)
    \/ Return(i)

Next == \E i \in Invocations : RunStep(i)

\* Concurrent pipeline invocations on worker threads sharing one pipeline.
Spec == Init /\ [][Next]_vars

InitMesh == PipeInit /\ MeshInit /\ SimIdle /\ SynthIdle /\ RenderIdle
    /\ LibraryIdle /\ TasksIdle

NextMesh ==
    \/ \E other \in InputMeshes : CombineMerge(other)
    \/ BodyMerge

\* Meshes built by merging.
SpecMesh == InitMesh /\ [][NextMesh]_vars

InitSim == PipeInit /\ MeshIdle /\ SimInit /\ SynthIdle /\ RenderIdle
    /\ LibraryIdle /\ TasksIdle

NextSim ==
    \/ SimulateDegenerate
    \/ SimulateSetup
    \/ ComputeForces
    \/ Integrate
    \/ EnforcePins
    \/ RecordFrame
    \/ SimulateReturn

\* One call of ClothSimulator.simulate.
SpecSim == InitSim /\ [][NextSim]_vars

InitSynth == PipeInit /\ MeshIdle /\ SimIdle /\ SynthInit /\ RenderIdle
    /\ LibraryIdle /\ TasksIdle

NextSynth ==
    \/ ModelFromJson
    \/ \E args \in SynthArgs : ModelSynthesize(args)
    \/ ScaleVectorCall

\* A model definition file loaded and synthesized from.
SpecSynth == InitSynth /\ [][NextSynth]_vars

\* Generate calls on one library, in sequence.
InitLibrary == PipeInit /\ MeshIdle /\ SimIdle /\ SynthIdle /\ RenderIdle
    /\ LibraryIdle /\ TasksIdle

NextLibrary == \E garment_id \in LibraryIds, args \in GenerateArgs : Generate(garment_id, args)

SpecLibrary == InitLibrary /\ [][NextLibrary]_vars

\* Requests, their background tasks and a get_result reader, interleaved.
InitTasks == PipeInit /\ MeshIdle /\ SimIdle /\ SynthIdle /\ RenderIdle
    /\ LibraryIdle /\ TasksInit

NextTasks == (\E t \in TaskIds : WorkerStep(t)) \/ ReaderStep

SpecTasks == InitTasks /\ [][NextTasks]_vars

\* The same with threads that keep running: a request or background task
\* that can take its next step takes it.
SpecTasksLive == SpecTasks /\ \A t \in TaskIds : WF_vars(WorkerStep(t))

\* export_gltf and render_preview, each called once on one input.
InitRender == PipeInit /\ MeshIdle /\ SimIdle /\ SynthIdle /\ RenderInit
    /\ LibraryIdle /\ TasksIdle

NextRender == ExportGltfCall \/ RenderPreviewCall

SpecRender == InitRender /\ [][NextRender]_vars

-----------------------------------------------------------------------------
(* Claims about the pipeline and the model cache (Spec) *)

\* C1: concurrent invocations asking for the same uncached garment id
\* construct its model (from_json) at most once.
C1_LoadedAtMostOnce == \A g \in GarmentIds : loadCount[g] <= 1

\* C2: every cache entry, and every model _load_model returned, is a fully
\* constructed object: all attributes of __init__ are set, and synthesize
\* never fails on a missing attribute.
C2_CacheEntriesComplete ==
    /\ \A g \in DOMAIN cache : heap[cache[g]] = ModelFields
    /\ \A i \in DOMAIN model : heap[model[i]] = ModelFields
    /\ \A i \in Invocations : error[i] # "AttributeError"

\* An invocation reads the cache entry of a garment while another invocation
\* is half way through constructing a model for the same garment.
C2_Witness ==
    \E i, j \in Invocations :
      /\ i # j
      /\ garment[i] = garment[j]
      /\ pc[i] = "init" /\ heap[i] # {} /\ heap[i] # ModelFields
      /\ pc[j] = "synthesize" /\ j \in DOMAIN model

SimulationFailed(i) == simOutcome[i] \in {"simulate_raised", "export_raised"}

\* C3: when simulate or export_simulation raises, run does not raise: it goes
\* on to return, and the scene and preview files are already written.
C3_SimulationFailureContained ==
    \A i \in Invocations :
      SimulationFailed(i) =>
        /\ pc[i] \in {"metadata", "returned"}
        /\ error[i] = None
        /\ {"scene.gltf", "preview.svg"} \subseteq files[i]
        /\ pc[i] = "metadata" => ENABLED Return(i)

C3_Witness ==
    \E i, j \in Invocations :
      /\ simOutcome[i] = "simulate_raised" /\ pc[i] = "returned"
      /\ simOutcome[j] = "export_raised" /\ pc[j] = "returned"

\* C4: after a failed simulation step the returned artifacts carry no
\* animation: simulation_path is None and metadata has no 'simulation'; and
\* in every returned TryOnArtifacts simulation_path is set exactly when
\* metadata has 'simulation'.
C4_NoAnimationAfterFailure ==
    \A i \in Invocations :
      pc[i] = "returned" =>
        /\ SimulationFailed(i) =>
             ~result[i].simulation_path /\ ~result[i].metadata_simulation
        /\ result[i].simulation_path <=> result[i].metadata_simulation

\* C5: run with a garment id that is not in the catalog fails with KeyError
\* (NotFound) before feature extraction and synthesis and before anything is
\* created under output_root.
C5_UnknownGarmentFailsEarly ==
    \A i \in Invocations :
      garment[i] \in GarmentIds \ Catalog =>
        /\ pc[i] \in {"estimate", "build", "raised"}
        /\ pc[i] = "raised" => error[i] = "KeyError"
        /\ stages[i] \subseteq {"pose"}
        /\ files[i] = {}
        /\ i \notin DOMAIN model

C5_Witness ==
    \E i \in Invocations :
      garment[i] \notin Catalog /\ pc[i] = "raised" /\ error[i] = "KeyError"

\* The simulation block of run is over (run, skipped or failed).
SimulationOver(i) == pc[i] \in {"export_simulation", "metadata", "returned"}

\* C6 as stated: the stages run in the order feature extraction, synthesis,
\* simulation, export: neither the scene file nor the preview file is written
\* before the cloth simulation stage has finished.
C6_ExportAfterSimulation ==
    \A i \in Invocations :
      /\ "synthesis" \in stages[i] => "features" \in stages[i]
      /\ SimulationOver(i) => "synthesis" \in stages[i]
      /\ files[i] \cap {"scene.gltf", "preview.svg"} # {} => SimulationOver(i)

\* C6 as amended: the stages run in the order feature extraction, synthesis,
\* static export (scene file, then preview file), simulation, animation
\* export: the simulation block is not entered before the scene file and the
\* preview file are written, and only the animation file is written after it.
C6_StagesInCodeOrder ==
    \A i \in Invocations :
      /\ "features" \in stages[i] => "pose" \in stages[i]
      /\ "synthesis" \in stages[i] => "features" \in stages[i]
      /\ files[i] # {} => "synthesis" \in stages[i] /\ "dir" \in files[i]
      /\ "preview.svg" \in files[i] => "scene.gltf" \in files[i]
      /\ pc[i] = "simulate" \/ SimulationOver(i) \/ "simulation" \in stages[i]
           \/ simOutcome[i] # "none"
           => {"scene.gltf", "preview.svg"} \subseteq files[i]
      /\ "cloth_simulation.json" \in files[i] => "simulation" \in stages[i]

C6_Witness ==
    \E i \in Invocations :
      /\ pc[i] = "returned"
      /\ "simulation" \in stages[i]
      /\ files[i] = {"dir", "scene.gltf", "preview.svg", "cloth_simulation.json"}

\* C12: a returned run for a garment mesh with indices whose simulation
\* block raised nothing has written the animation document with frame count
\* >= 1 and frame rate > 0, and its metadata 'simulation' entry reports the
\* frame count of that document and the file name of simulation_path.
C12_AnimationReported ==
    \A i \in Invocations :
      pc[i] = "returned" /\ garment[i] \notin EmptyIndexFiles /\ ~SimulationFailed(i) =>
        /\ result[i].simulation_path
        /\ "cloth_simulation.json" \in files[i]
        /\ anim[i].document.frame_count >= 1
        /\ anim[i].document.frame_rate[1] > 0 /\ anim[i].document.frame_rate[2] > 0
        /\ result[i].metadata_simulation
        /\ result[i].simulation.frame_count = anim[i].document.frame_count
        /\ result[i].simulation.frame_rate = anim[i].document.frame_rate
        /\ result[i].simulation.file = result[i].simulation_file

\* A pretrained garment and an analytic one have both been animated.
C12_Witness ==
    \E i, j \in Invocations :
      /\ garment[i] = "tshirt_basic" /\ garment[j] = "box_skirt"
      /\ pc[i] = "returned" /\ pc[j] = "returned"
      /\ simOutcome[i] = "ok" /\ simOutcome[j] = "ok"
      /\ result[i].simulation = [frame_count |-> DefaultSteps, frame_rate |-> <<30, 1>>,
                                 file |-> "cloth_simulation.json"]
      /\ anim[j].document.frame_count = DefaultSteps

-----------------------------------------------------------------------------
(* Claims about meshes (SpecMesh) *)

\* C7: merging B into A leaves A with Va + Vb vertices, keeps A's positions,
\* normals, colors and indices as a prefix, appends B's positions, normals
\* and colors, and appends B's indices each increased by Va.
C7_MergeAppendsWithOffset ==
    LET A == preMesh
        B == lastOther
        Va == VertexCount(A)
        Vb == VertexCount(B)
    IN  /\ VertexCount(mesh) = Va + Vb
        /\ Len(mesh.vertices) = Len(A.vertices) + Len(B.vertices)
        /\ Len(mesh.normals) = Len(A.normals) + Len(B.normals)
        /\ Len(mesh.colors) = Len(A.colors) + Len(B.colors)
        /\ Len(mesh.indices) = Len(A.indices) + Len(B.indices)
        /\ SubSeq(mesh.vertices, 1, Len(A.vertices)) = A.vertices
        /\ SubSeq(mesh.normals, 1, Len(A.normals)) = A.normals
        /\ SubSeq(mesh.colors, 1, Len(A.colors)) = A.colors
        /\ SubSeq(mesh.indices, 1, Len(A.indices)) = A.indices
        /\ SubSeq(mesh.vertices, Len(A.vertices) + 1, Len(mesh.vertices)) = B.vertices
        /\ SubSeq(mesh.normals, Len(A.normals) + 1, Len(mesh.normals)) = B.normals
        /\ SubSeq(mesh.colors, Len(A.colors) + 1, Len(mesh.colors)) = B.colors
        /\ \A k \in 1..Len(B.indices) :
             mesh.indices[Len(A.indices) + k] = B.indices[k] + Va

\* A mesh with a triangle has been merged into a mesh that had vertices and a
\* triangle of its own.
C7_Witness ==
    /\ meshOp = "combine_meshes"
    /\ VertexCount(preMesh) = 2 /\ preMesh.indices # <<>>
    /\ VertexCount(lastOther) = 2 /\ lastOther.indices = <<1, 0, 1>>
    /\ mesh # preMesh

\* C8: starting from the empty mesh, every mesh reached by merging meshes
\* that satisfy the Mesh invariant satisfies it, in combine_meshes and in
\* create_body_mesh.
C8_MergePreservesInvariant ==
    /\ MeshInvariant(lastOther)
    /\ \A k \in 1..Len(todo) : MeshInvariant(todo[k])
    /\ MeshInvariant(mesh)

\* create_body_mesh has merged its ten boxes.
C8_Witness ==
    /\ meshOp = "create_body_mesh"
    /\ todo = <<>>
    /\ VertexCount(mesh) = 240
    /\ Len(mesh.indices) = 360
    /\ \E k \in 1..Len(mesh.indices) : mesh.indices[k] = 239

-----------------------------------------------------------------------------
(* Claims about the cloth simulation (SpecSim) *)

\* The pin pass of the current or the last step is over.
AfterPinPass ==
    \/ sim.phase = "frame"
    \/ sim.phase \in {"loop", "returned"} /\ sim.step >= 1

\* C9: at the end of every step, after the pin pass, every pinned vertex is
\* at its position in the input mesh and has velocity zero.
C9_PinnedVerticesHeld ==
    AfterPinPass =>
      \A k \in 1..Len(sim.pinned_idx) :
        LET v == sim.pinned_idx[k] + 1
        IN  /\ sim.positions[v] = ChunkVectors(sim.vertices)[v]
            /\ sim.velocities[v] = <<0, 0, 0>>

\* The pin pass of a later step is over, a pinned vertex had a force on it
\* and a free vertex has moved.
C9_Witness ==
    /\ sim.phase = "frame"
    /\ sim.step >= 1
    /\ sim.time_step[1] # 0
    /\ \E k \in 1..Len(sim.pinned_idx) :
         sim.forces[sim.pinned_idx[k] + 1] # <<0, 0, 0>>
    /\ \E v \in 1..Len(sim.positions) :
         sim.positions[v] # sim.base_positions[v]

Degenerate == sim.vertices = <<>> \/ sim.indices = <<>>

\* C10: with an empty vertex list or an empty index list simulate returns
\* exactly one frame, at time 0, holding the input positions unchanged, and
\* frame_rate 0, whatever steps and time_step are.
C10_DegenerateSingleFrame ==
    Degenerate =>
      /\ sim.phase \in {"call", "returned"}
      /\ sim.phase = "returned" =>
           /\ sim.result.frames = << [time |-> ZeroTime, vertices |-> sim.vertices] >>
           /\ sim.result.frame_rate = ZeroTime

\* A mesh with vertices off the micro-unit grid and no index, simulated with
\* the largest step count and a non-zero time step.
C10_Witness ==
    /\ sim.phase = "returned"
    /\ sim.indices = <<>>
    /\ sim.vertices = <<1, 0, 0, 3001, 0, 7, 0, 4003, 0>>
    /\ sim.steps = MaxSteps
    /\ sim.time_step = <<1, 30>>

\* The ClothSimulation simulate returned.
Returned == sim.phase = "returned"

\* C11 as stated: the frame_rate returned by simulate is 1 / time_step when
\* time_step is not 0, and 0 when time_step is 0.
C11_FrameRateIsInverse ==
    Returned =>
      LET fr == sim.result.frame_rate
          dt == sim.time_step
      IN  IF dt[1] # 0
            THEN fr[2] # 0 /\ fr[1] * dt[1] = fr[2] * dt[2]
            ELSE fr[1] = 0

\* C11 as amended: for a mesh with vertices and indices the frame_rate is
\* 1 / time_step when time_step is not 0 and 0 when it is 0; for an empty
\* vertex list or index list it is 0 whatever time_step is.
C11_FrameRateUnlessDegenerate ==
    Returned =>
      LET fr == sim.result.frame_rate
          dt == sim.time_step
      IN  IF Degenerate \/ dt[1] = 0
            THEN fr[1] = 0 /\ fr[2] # 0
            ELSE fr[2] # 0 /\ fr[1] * dt[1] = fr[2] * dt[2]

\* A triangle simulated for the largest step count at 30 frames a second.
C11_Witness ==
    /\ Returned
    /\ ~Degenerate
    /\ sim.steps = MaxSteps
    /\ sim.time_step = <<1, 30>>
    /\ sim.result.frame_rate = <<30, 1>>
    /\ Len(sim.result.frames) = MaxSteps

-----------------------------------------------------------------------------
(* Claims about model files and synthesis (SpecSynth) *)

\* A synthesize call on the cached model has returned a mesh.
Synthesized == synth.phase = "cached" /\ synth.calls >= 1 /\ synth.last.returned.error = None

\* Every feature the component declares has weight zero or is missing from
\* the pose features.
Inert(component, pose_features) ==
    \A name \in DOMAIN component.feature_weights :
      component.feature_weights[name] = 0 \/ name \notin DOMAIN pose_features

\* C13: when every component of the model has only zero weights or only
\* features the pose does not have, synthesize returns for every vertex
\* exactly (base - base_centroid) * scale_vector + target_center.
C13_InertComponentsLeaveBase ==
    LET self == synth.model
        args == synth.last.args
    IN  Synthesized
        /\ (\A k \in 1..Len(self.components) : Inert(self.components[k], args.pose_features))
        => synth.last.returned.mesh.vertices =
             Flatten(Recenter(self.base_vertices, self.base_centroid,
                              ComputeScaleVector(self.base_extents, args.target_size),
                              args.target_center), 3)

\* The model with a zero-weight, an undeclared-feature and a weightless
\* component, all with non-zero vectors, synthesized for a full pose.
C13_Witness ==
    /\ Synthesized
    /\ synth.model.id = "still"
    /\ Len(synth.model.components) = 3
    /\ DOMAIN synth.last.args.pose_features # {}
    /\ synth.last.args.target_center = <<1500, -900, 60>>
    /\ synth.last.returned.mesh.vertices # Flatten(synth.model.base_vertices, 3)

\* C14: on an axis whose base extent is below 1e-6 the divisor of the scale
\* is 1.0 (the scale is target_size[axis]); on every other axis the scale is
\* target_size[axis] / base_extent[axis]. Stated for a direct call of
\* _compute_scale_vector and for the extents of a loaded model.
C14_ScaleDivisorGuarded ==
    LET Expected(extent, target) ==
            IF extent < Epsilon THEN <<target, One>> ELSE <<target, extent>>
    IN  /\ synth.phase = "scale_returned" =>
             \A axis \in 1..3 :
               synth.scale[axis] = Expected(synth.extents[axis], synth.target_size[axis])
        /\ Synthesized /\ synth.model.base_vertices # <<>> =>
             \A axis \in 1..3 :
               ComputeScaleVector(synth.model.base_extents, synth.last.args.target_size)[axis]
                 = Expected(RawExtents(synth.model.base_vertices)[axis],
                            synth.last.args.target_size[axis])

\* _compute_scale_vector was called with extents 0, 1/3 and 2/3 of 1e-6.
C14_Witness ==
    /\ synth.phase = "scale_returned"
    /\ synth.extents = <<0, 1, 2>>
    /\ synth.scale = <<<<6000, One>>, <<3000, One>>, <<3, One>>>>

\* C19: a malformed definition is rejected by from_json; once a model is
\* loaded and cached, no synthesize call on it raises.
C19_MalformedRejectedAtLoad ==
    /\ synth.phase = "cached" /\ synth.calls >= 1 => synth.last.returned.error = None
    /\ synth.phase = "cached" => synth.error = None

-----------------------------------------------------------------------------
(* Claims about the cache entry (Spec) *)

\* C20: once a garment id has a cache entry, the entry stays and is never
\* replaced by another model object, and the model is not loaded again.
C20_CacheEntryKept ==
    [][\A g \in DOMAIN cache :
         /\ g \in DOMAIN cache'
         /\ cache'[g] = cache[g]
         /\ loadCount'[g] = loadCount[g]]_vars

-----------------------------------------------------------------------------
(* Claims about export_gltf and render_preview (SpecRender) *)

\* export_gltf returned after writing the document.
ExportReturned == render.phase = "export_returned"

\* The region of the buffer holding the packed indices.
IndexRegion ==
    LET buffer == render.document.buffer
    IN  buffer[CHOOSE k \in DOMAIN buffer : buffer[k].part = "indices"]

\* C15: a written document declares unsigned short (5123) indices when the
\* mesh has fewer than 65536 vertices and unsigned int (5125) indices from
\* 65536 vertices on; the indices are packed 2 bytes each under 5123 and 4
\* bytes each under 5125; and packing fails only for an index above 65535
\* that was given 16 bits.
C15_IndexWidthFollowsVertexCount ==
    LET vertex_count == ExportVertexCount(render.mesh)
        accessor == render.document.accessors[4]
    IN  /\ ExportReturned =>
             /\ accessor.componentType =
                  (IF vertex_count < ShortLimit THEN UnsignedShort ELSE UnsignedInt)
             /\ vertex_count = ShortLimit - 1 => accessor.componentType = UnsignedShort
             /\ vertex_count = ShortLimit => accessor.componentType = UnsignedInt
             /\ IndexRegion.item = (IF accessor.componentType = UnsignedShort THEN 2 ELSE 4)
             /\ IndexRegion.len = IndexRegion.item * accessor.count
             /\ accessor.count = render.mesh.indices
        /\ render.phase = "export_raised" /\ render.error = "struct.error" =>
             vertex_count < ShortLimit /\ render.mesh.max_index >= ShortLimit

\* A mesh of 65535 vertices and 7 indices was written with 14 bytes of
\* 16-bit indices.
C15_Witness ==
    /\ ExportReturned
    /\ ExportVertexCount(render.mesh) = ShortLimit - 1
    /\ render.mesh.indices = 7
    /\ render.document.accessors[4].componentType = UnsignedShort
    /\ render.document.bufferViews[4].byteLength = 14

\* n rounded up to a multiple of 4.
RoundUp4(n) == ((n + 3) \div 4) * 4

\* The names of the regions, in the order of the claim.
RegionNames == <<"positions", "normals", "colors", "indices">>

\* Where the region called `part` starts in the buffer.
RegionStart(buffer, part) ==
    JoinedLength(buffer, (CHOOSE k \in DOMAIN buffer : buffer[k].part = part) - 1)

\* C16: in a written document the buffer holds positions, normals, colors,
\* indices in that order; every byteOffset is a multiple of 4, the first is 0
\* and each next one is the previous offset plus length rounded up to a
\* multiple of 4; every byteLength is the unpadded length of its region;
\* every byteOffset is where the region starts in the buffer; the buffer
\* length is a multiple of 4 and is the byteLength declared.
C16_RegionsAligned ==
    ExportReturned =>
      LET document == render.document
          buffer == document.buffer
          views == document.bufferViews
          regions == SelectSeq(buffer, LAMBDA c : c.part # "pad")
          unpadded == <<4 * render.mesh.vertices, 4 * render.mesh.normals,
                        4 * render.mesh.colors, IndexRegion.item * render.mesh.indices>>
      IN  /\ [k \in DOMAIN regions |-> regions[k].part] = RegionNames
          /\ Len(views) = 4
          /\ views[1].byteOffset = 0
          /\ \A k \in 1..4 :
               /\ views[k].byteOffset % 4 = 0
               /\ views[k].byteLength = unpadded[k]
               /\ views[k].byteLength = regions[k].len
               /\ views[k].byteOffset = RegionStart(buffer, RegionNames[k])
          /\ \A k \in 1..3 :
               views[k + 1].byteOffset = RoundUp4(views[k].byteOffset + views[k].byteLength)
          /\ JoinedLength(buffer, Len(buffer)) % 4 = 0
          /\ document.byteLength = JoinedLength(buffer, Len(buffer))

\* Three vertices and five 16-bit indices: the index region of 10 bytes
\* starts at 120 and is followed by 2 bytes of padding.
C16_Witness ==
    /\ ExportReturned
    /\ render.mesh.vertices = 9
    /\ render.mesh.indices = 5
    /\ render.document.bufferViews[4] =
         [byteOffset |-> 120, byteLength |-> 10, target |-> ElementArrayBuffer]
    /\ render.document.buffer[Len(render.document.buffer)] = Bytes("pad", 2, 1)
    /\ render.document.byteLength = 132

\* C17: export_gltf on a mesh with no whole vertex raises ValueError and
\* output_path is not written.
C17_EmptyMeshRejected ==
    render.phase \in {"export_returned", "export_raised"}
    /\ ExportVertexCount(render.mesh) = 0
    => /\ render.phase = "export_raised"
       /\ render.error = "ValueError"
       /\ ~ render.written
       /\ render.document = NoDocument

\* export_gltf raised for a mesh with two floats of vertex data and indices.
C17_Witness ==
    /\ render.phase = "export_raised"
    /\ render.mesh.vertices = 2
    /\ render.mesh.indices = 3
    /\ render.error = "ValueError"
    /\ ~ render.written

\* C18: render_preview of a pose without one of shoulder_l, shoulder_r,
\* hip_l, hip_r returns, having written a preview with one line per edge and
\* no garment rectangle.
C18_PreviewWithoutLandmark ==
    render.phase \in {"preview_returned", "preview_raised"}
    /\ ~ (Required \subseteq DOMAIN render.pose.keypoints)
    => /\ render.phase = "preview_returned"
       /\ render.written
       /\ render.svg.rect = <<>>
       /\ Len(render.svg.lines) = Len(render.pose.edges)

-----------------------------------------------------------------------------
(* Claims about the springs and the frames of simulate (SpecSim) *)

\* simulate is past its setup: the loop is running or it returned the frames
\* of the loop.
SetUp == sim.phase \in {"loop", "integrate", "pins", "frame"} \/ (Returned /\ ~ Degenerate)

\* The unordered edges of the whole triangles of an index list, each as the
\* pair <<smaller, larger>>.
TriangleEdges(indices) ==
    {<<IF indices[a] <= indices[b] THEN indices[a] ELSE indices[b],
       IF indices[a] <= indices[b] THEN indices[b] ELSE indices[a]>> :
        <<a, b>> \in UNION {{<<3 * t - 2, 3 * t - 1>>, <<3 * t - 1, 3 * t>>,
                             <<3 * t, 3 * t - 2>>} : t \in 1..(Len(indices) \div 3)}}

\* C23: the springs are the edges of the triangles, each exactly once, each
\* a pair (i, j) with i < j; there is no pair with i = j and no other pair.
C23_SpringsAreTriangleEdges ==
    SetUp =>
      /\ {sim.springs[k] : k \in DOMAIN sim.springs} = TriangleEdges(sim.indices)
      /\ \A k, l \in DOMAIN sim.springs : sim.springs[k] = sim.springs[l] => k = l
      /\ \A k \in DOMAIN sim.springs : sim.springs[k][1] < sim.springs[k][2]

\* C24: from the end of the setup on, whatever the positions have become,
\* the rest length of every spring is the Euclidean distance (to the nearest
\* unit) between its two ends in the vertex list simulate was called with.
C24_RestLengthsFixed ==
    SetUp =>
      LET initial == ChunkVectors(sim.vertices)
      IN  /\ Len(sim.rest_lengths) = Len(sim.springs)
          /\ \A k \in DOMAIN sim.springs :
               LET a == initial[sim.springs[k][1] + 1]
                   b == initial[sim.springs[k][2] + 1]
                   squared == (a[1] - b[1]) * (a[1] - b[1]) + (a[2] - b[2]) * (a[2] - b[2])
                                + (a[3] - b[3]) * (a[3] - b[3])
                   rest == sim.rest_lengths[k]
               IN  /\ rest >= 0
                   /\ rest > 0 => (2 * rest - 1) * (2 * rest - 1) <= 4 * squared
                   /\ 4 * squared <= (2 * rest + 1) * (2 * rest + 1)

\* Vertex 0 is pinned and vertex 1 has fallen for two steps: the spring
\* between them is no longer 5000 long and its rest length still is.
C24_Witness ==
    /\ sim.phase = "loop"
    /\ sim.step >= 2
    /\ sim.vertices = <<0, 0, 0,  3000, 4000, 0>>
    /\ sim.pinned_idx = <<0>>
    /\ \E k \in DOMAIN sim.springs :
         /\ sim.springs[k] = <<0, 1>>
         /\ sim.rest_lengths[k] = 5000
         /\ Distance(sim.positions[1], sim.positions[2]) # 5000

\* C25: the loop appends one frame per step: after step k there are k + 1
\* frames, frame k has time k * time_step and 3V values, the newest frame is
\* the rounded positions left by the integration and the pin pass of its
\* step, and the frames returned are these, `steps` of them; the times
\* increase strictly when time_step > 0.
C25_OneFramePerStep ==
    /\ SetUp =>
         /\ \A k \in DOMAIN sim.frames :
              /\ sim.frames[k].time = <<(k - 1) * sim.time_step[1], sim.time_step[2]>>
              /\ Len(sim.frames[k].vertices) = Len(sim.vertices)
              /\ k > 1 /\ sim.time_step[1] > 0 =>
                   sim.frames[k - 1].time[1] * sim.frames[k].time[2]
                     < sim.frames[k].time[1] * sim.frames[k - 1].time[2]
         /\ sim.phase \in {"loop", "returned"} =>
              /\ Len(sim.frames) = sim.step
              /\ sim.step <= sim.steps
              /\ sim.step > 0 =>
                   sim.frames[sim.step].vertices = FrameVertices(sim.positions)
         /\ sim.phase \in {"integrate", "pins", "frame"} => Len(sim.frames) = sim.step
    /\ Returned /\ ~ Degenerate =>
         /\ Len(sim.result.frames) = sim.steps
         /\ sim.result.frames = sim.frames

\* Three steps of 1/30 on a mesh with a pinned vertex returned three frames,
\* the last at time 2/30 and unlike the first.
C25_Witness ==
    /\ Returned /\ ~ Degenerate
    /\ sim.steps = 3
    /\ sim.time_step = <<1, 30>>
    /\ sim.pinned_idx = <<0>>
    /\ Len(sim.result.frames) = 3
    /\ sim.result.frames[3].time = <<2, 30>>
    /\ sim.result.frames[3].vertices # sim.result.frames[1].vertices

\* C27: the pinned_vertices of every ClothSimulation returned hold only
\* indices i with 0 <= i < V, on the degenerate path too.
C27_PinnedIndicesInRange ==
    Returned =>
      \A k \in DOMAIN sim.result.pinned_vertices :
        /\ 0 <= sim.result.pinned_vertices[k]
        /\ sim.result.pinned_vertices[k] < Len(sim.vertices) \div 3

-----------------------------------------------------------------------------
(* Claims about the vertex colours of synthesize (SpecSynth) *)

\* C22: the wrinkle term is part of the shading factor, which is clamped and
\* multiplied into the base colour, so every channel is a clamped multiple
\* of its base channel: a base channel of 0 gives 0 at every vertex.
C22_ZeroChannelStaysZero ==
    Synthesized /\ synth.last.returned.error = None =>
      LET colors == synth.last.returned.mesh.colors
          base_color == synth.last.args.base_color
      IN  \A k \in 1..(Len(colors) \div 4) : \A c \in 1..3 :
            base_color[c] = 0 => colors[4 * (k - 1) + c] = 0

-----------------------------------------------------------------------------
(* Claims about the library cache on failed loads (SpecLibrary) *)

\* The files from_json rejects.
RejectedFiles == {g \in DOMAIN LibraryFiles : FromJsonResult(LibraryFiles[g]).error # None}

\* C26: generate for an id with no file and no cache entry raises
\* FileNotFoundError and leaves the cache as it was; a load that from_json
\* rejects raises and leaves the cache as it was, without an entry for the
\* id, so every request for such an id calls from_json again; an id is in
\* the cache only after from_json accepted its file.
C26_FailedLoadsLeaveCache ==
    LET g == library.last.garment_id
    IN  /\ library.calls > 0 /\ g \notin DOMAIN LibraryFiles =>
             /\ library.last.error = "FileNotFoundError"
             /\ library.cache = library.before
             /\ g \notin DOMAIN library.cache
        /\ library.calls > 0 /\ g \in RejectedFiles =>
             /\ library.last.error = FromJsonResult(LibraryFiles[g]).error
             /\ library.cache = library.before
             /\ g \notin DOMAIN library.cache
        /\ \A id \in LibraryIds :
             /\ id \in RejectedFiles => library.loads[id] = library.requests[id]
             /\ id \notin DOMAIN LibraryFiles => library.loads[id] = 0
             /\ id \in DOMAIN library.cache =>
                  /\ id \in DOMAIN LibraryFiles \ RejectedFiles
                  /\ library.cache[id] = FromJsonResult(LibraryFiles[id]).model

\* A request for an id without file failed after two requests for a file
\* with a bad stride, each of which called from_json, and the cache is empty.
C26_Witness ==
    /\ library.calls = 3
    /\ library.last = [garment_id |-> "no_file", error |-> "FileNotFoundError"]
    /\ library.requests["stride2"] = 2
    /\ library.loads["stride2"] = 2
    /\ library.cache = NoModels

-----------------------------------------------------------------------------
(* Claims about the task records (SpecTasksLive, SpecTasks) *)

\* The status histories a task may have.
StatusOrders ==
    {<<>>, <<"queued">>, <<"queued", "running">>,
     <<"queued", "running", "done">>, <<"queued", "running", "failed">>}

\* What holds of task t at every moment: run is called at most once, the
\* statuses assigned follow queued, running, done or failed, the record
\* shows the last of them, and once the background task has ended the record
\* is failed with str(exc) when run raised exc and done with the payload
\* otherwise.
TaskInOrder(t) ==
    /\ history[t].runs <= 1
    /\ history[t].trace \in StatusOrders
    /\ t \in DOMAIN tasks <=> history[t].trace # <<>>
    /\ t \in DOMAIN tasks => tasks[t].status = history[t].trace[Len(history[t].trace)]
    /\ worker[t].pc \notin {"crashed"}
    /\ worker[t].pc = "finished" =>
         IF worker[t].exc # NoError
           THEN /\ tasks[t].status = "failed"
                /\ tasks[t].error = Str(worker[t].exc)
                /\ tasks[t].error \notin {None, ""}
                /\ tasks[t].result = NoneResult
                /\ history[t].runs = 1
           ELSE /\ tasks[t].status = "done"
                /\ tasks[t].result = ResultPayload(t)
                /\ tasks[t].error = None

\* C21: a failure of pipeline.run leaves the record failed with the
\* description of the failure, run is not called again, the statuses of a
\* task are assigned in the order queued, running, then done or failed, and
\* every task that was started ends done or failed.
C21_FailuresEndInFailed ==
    /\ [](\A t \in TaskIds : TaskInOrder(t))
    /\ \A t \in TaskIds :
         (t \in DOMAIN tasks /\ tasks[t].status = "running")
           ~> (worker[t].pc = "finished" /\ tasks[t].status \in {"done", "failed"})

\* Both background tasks have ended: a1 failed on the unknown garment id, b2
\* is done.
C21_Witness ==
    /\ worker["a1"] = [pc |-> "finished", exc |-> [type |-> "KeyError", args |-> <<"unknown">>]]
    /\ history["a1"] = [trace |-> <<"queued", "running", "failed">>, runs |-> 1]
    /\ tasks["a1"].error = "'unknown'"
    /\ worker["b2"].pc = "finished"
    /\ tasks["b2"].status = "done"

\* C28: a response of get_result with status done carries the result
\* payload, and one with status failed carries an error that is not null.
C28_ResponsesConsistent ==
    reader.response.code = 200 =>
      /\ reader.response.status = "done" => ~ reader.response.result.is_none
      /\ reader.response.status = "failed" => reader.response.error # None

=============================================================================
